---- MODULE Spec2Model ----
(***************************************************************************)
(* Model of the ECKD channel-program builder (dasd_eckd.c): the geometry   *)
(* and record-layout functions, dasd_eckd_build_cp / dasd_eckd_free_cp,    *)
(* and the alias wrappers with the per-device channel-queue counter.       *)
(***************************************************************************)
EXTENDS Integers, Sequences, FiniteSets, TLC

(* ------------------------------------------------------------------ *)
(* Bounds of the model                                                *)
(* ------------------------------------------------------------------ *)
\* largest number of blocks one block-layer request carries
MaxBlocks == 2
\* largest records-per-track value given to the record classifier on its own
MaxBpt == 6
\* geometry of the modelled volumes: cylinders and tracks per cylinder
NoCyl == 10
TrkPerCyl == 15

(* ------------------------------------------------------------------ *)
(* Program constants                                                  *)
(* ------------------------------------------------------------------ *)
LABEL_SIZE == 140
DASD_ECKD_CHANQ_MAX_SIZE == 4

sizes_trk0 == <<28, 148, 84>>

BlockSizes == {2048}                   \* bp_block of the modelled volumes
PAGE_SIZE == 4096                      \* one copy buffer, and the most one segment holds

MaxAddrReqs == 2                       \* address requests of the modelled runs
MaxTimeout == 2                        \* longest timeout of a request, in jiffies

Bases == {"base1", "base2"}
Devices == Bases \cup {"alias"}
Buffers == {1, 2}
Dirs == {"READ", "WRITE"}
ClockRcs == {"OK", "EAGAIN", "ENOSYS", "EACCES"}

(* ------------------------------------------------------------------ *)
(* Geometry calculator                                                *)
(* ------------------------------------------------------------------ *)
\* mutant: the quotient is rounded down
ceil_quot_floor(d1, d2) == d1 \div d2

ceil_quot(d1, d2) == (d1 + (d2 - 1)) \div d2

recs_per_track(dev_type, kl, dl) ==
    CASE dev_type = 13184 ->
           IF kl # 0
           THEN 1499 \div (15 + 7 + ceil_quot(kl + 12, 32) + ceil_quot(dl + 12, 32))
           ELSE 1499 \div (15 + ceil_quot(dl + 12, 32))
      [] dev_type = 13200 ->
           LET dn == ceil_quot(dl + 6, 232) + 1
               kn == ceil_quot(kl + 6, 232) + 1
           IN IF kl # 0
              THEN 1729 \div (10 + 9 + ceil_quot(kl + 6 * kn, 34)
                              + 9 + ceil_quot(dl + 6 * dn, 34))
              ELSE 1729 \div (10 + 9 + ceil_quot(dl + 6 * dn, 34))
      [] dev_type = 37701 ->
           LET dn == ceil_quot(dl + 6, 232) + 1
               kn == ceil_quot(kl + 6, 232) + 1
           IN IF kl # 0
              THEN 1420 \div (18 + 7 + ceil_quot(kl + 6 * kn, 34)
                              + ceil_quot(dl + 6 * dn, 34))
              ELSE 1420 \div (18 + 7 + ceil_quot(dl + 6 * dn, 34))
      [] OTHER -> 0

(* ------------------------------------------------------------------ *)
(* Record layout classifier                                           *)
(* ------------------------------------------------------------------ *)
\* mutant: the first-track table is taken to have four entries
cdl_special_off_by_one(blk_per_trk, recid) ==
    IF recid < 4 THEN TRUE
    ELSE IF recid < blk_per_trk THEN FALSE
    ELSE IF recid < 2 * blk_per_trk THEN TRUE
    ELSE FALSE

dasd_eckd_cdl_special(blk_per_trk, recid) ==
    IF recid < 3 THEN TRUE
    ELSE IF recid < blk_per_trk THEN FALSE
    ELSE IF recid < 2 * blk_per_trk THEN TRUE
    ELSE FALSE

\* mutant: every special record has the length of a label
dasd_eckd_cdl_reclen_label(recid) == LABEL_SIZE

dasd_eckd_cdl_reclen(recid) ==
    IF recid < 3 THEN sizes_trk0[recid + 1] ELSE LABEL_SIZE

\* build_cp, per record: is the record transferred with the KD command
RecSpecial(cdl, blk_per_trk, recid) ==
    cdl /\ recid < 2 * blk_per_trk /\ dasd_eckd_cdl_special(blk_per_trk, recid)

\* mutant: every record is transferred with the block size
RecCount_uniform(cdl, blk_per_trk, recid, blksize) == blksize

\* build_cp, per record: the byte count of the record's data descriptor
RecCount(cdl, blk_per_trk, recid, blksize) ==
    IF RecSpecial(cdl, blk_per_trk, recid)
    THEN dasd_eckd_cdl_reclen(recid)
    ELSE blksize

(* ------------------------------------------------------------------ *)
(* State                                                              *)
(* ------------------------------------------------------------------ *)
VARIABLES
    private,          \* dasd_eckd_private of the base volumes (rdc_data, uses_cdl, features, attrib)
    block,            \* dasd_block: bp_block, s2b_shift
    count,            \* private->count of every device: requests on its channel queue
    lock,             \* get_ccwdev_lock(device->cdev): "free" or the holder
    dasd_page_cache,  \* whether the copy-buffer pool is configured
    pool,             \* the pool's free buffers
    bufmem,           \* contents of the pool buffers, one entry per block
    pool_err,         \* kmem_cache_free was given something that is no allocated buffer
    reqs,             \* the block-layer requests (direction, range, segments, caller memory)
    cqrs,             \* the dasd_ccw_req objects
    pc,               \* each builder/finalizer context: position, start device, request, result
    calc,             \* argument and result of the geometry / classifier functions
    req_list,         \* addr.c: the queue of address requests, by timeout
    areq,             \* addr.c: the struct addr_req objects; timeout is kept relative to jiffies
    work,             \* addr.c: the delayed work: idle, on its timer, or on the workqueue
    worker,           \* addr.c: the workqueue thread in process_req and its done_list
    refcount,         \* addr.c: client->refcount
    net               \* addr.c: netevent_callback between its two calls in set_timeout

ib_addr == <<req_list, areq, work, worker, refcount, net>>

vars == <<private, block, count, lock, dasd_page_cache, pool, bufmem, pool_err,
          reqs, cqrs, pc, calc, ib_addr>>

dasd == <<private, block, count, lock, dasd_page_cache, pool, bufmem, pool_err,
          reqs, cqrs, pc, calc>>

ReqIds == 1..(DASD_ECKD_CHANQ_MAX_SIZE + 1)

NoReq == [dir |-> "NONE"]
NoCqr == [status |-> "NONE"]
FreedCqr == [status |-> "FREED"]
Idle == [at |-> "idle", sd |-> "none", r |-> 0, ret |-> "none"]

\* contents of one block of memory: bytes [0, L) and bytes [L, blksize), where L is
\* the length of the record the block is transferred as
Junk == [lo |-> "junk", hi |-> "junk"]
User == [lo |-> "user", hi |-> "user"]

(* addresses *)
SegAddr(s, j) == [k |-> "seg", id |-> s, j |-> j]
BufAddr(b, j) == [k |-> "buf", id |-> b, j |-> j]
IdawAddr(i) == [k |-> "idaw", id |-> i, j |-> 0]
LoAddr(i) == [k |-> "lo", id |-> i, j |-> 0]
DeAddr == [k |-> "de", id |-> 0, j |-> 0]

UidType(d) == IF d \in Bases THEN "UA_BASE_DEVICE" ELSE "UA_HYPER_PAV_ALIAS"
\* an alias device has no block and is never analysed: its uses_cdl stays 0
UsesCdl(d) == IF d \in Bases THEN private.uses_cdl ELSE FALSE

ReadCmds == {"READ_HOME_ADDRESS", "READ_RECORD_ZERO", "READ", "READ_MT", "READ_CKD",
             "READ_CKD_MT", "READ_KD", "READ_KD_MT", "READ_COUNT"}
WriteCmds == {"WRITE", "WRITE_MT", "WRITE_KD", "WRITE_KD_MT"}
WriteCkdCmds == {"WRITE_CKD", "WRITE_CKD_MT"}
EraseCmds == {"ERASE", "WRITE_HOME_ADDRESS", "WRITE_RECORD_ZERO"}

\* cmd | 0x8: the KD variant of the multi-track read / write command
OrKd(cmd) == CASE cmd = "READ_MT" -> "READ_KD_MT"
               [] cmd = "WRITE_MT" -> "WRITE_KD_MT"
               [] OTHER -> cmd

(* ------------------------------------------------------------------ *)
(* Command descriptor builder                                         *)
(* ------------------------------------------------------------------ *)
\* check_XRC / check_XRC_on_prefix: rc and the bits switched on in ga_extended
\* mutant: every return code of the clock is ignored
check_XRC_ignored(clock) ==
    IF ~private.XRC_supported
    THEN [rc |-> "OK", ga |-> {}, xrc |-> FALSE]
    ELSE [rc |-> "OK",
          ga |-> {"TIME_STAMP_VALID", "EXTENDED_PARAMETER"}, xrc |-> TRUE]

check_XRC(clock) ==
    IF ~private.XRC_supported
    THEN [rc |-> "OK", ga |-> {}, xrc |-> FALSE]
    ELSE [rc |-> IF clock \in {"ENOSYS", "EACCES"} THEN "OK" ELSE clock,
          ga |-> {"TIME_STAMP_VALID", "EXTENDED_PARAMETER"}, xrc |-> TRUE]

\* mutant: the extension is not held back at the last cylinder
ExtendEnd_unclamped(endcyl, op) ==
    IF op \in {"DASD_SEQ_PRESTAGE", "DASD_SEQ_ACCESS"}
    THEN endcyl + private.attrib.nr_cyl
    ELSE endcyl

\* "check for sequential prestage - enhance cylinder range"
ExtendEnd(endcyl, op) ==
    IF op \in {"DASD_SEQ_PRESTAGE", "DASD_SEQ_ACCESS"}
    THEN IF endcyl + private.attrib.nr_cyl < private.no_cyl
         THEN endcyl + private.attrib.nr_cyl
         ELSE private.no_cyl - 1
    ELSE endcyl

\* mutant: the format writes get the mask of the update writes
Permission_ckd_as_write(cmd) ==
    CASE cmd \in ReadCmds -> 1
      [] cmd \in WriteCmds \cup WriteCkdCmds -> 2
      [] cmd \in EraseCmds -> 3
      [] OTHER -> 0

\* mask.perm as the switch on the command leaves it in the zeroed data
Permission(cmd) ==
    CASE cmd \in ReadCmds -> 1
      [] cmd \in WriteCmds -> 2
      [] cmd \in EraseCmds -> 3
      [] OTHER -> 0

\* mutant: the track is taken apart by the number of cylinders
TrackAddr_by_cylinders(trk, heads) ==
    [cyl |-> trk \div private.no_cyl, head |-> trk % private.no_cyl]

\* cylinder and head of a track: trk / heads, trk % heads
TrackAddr(trk, heads) == [cyl |-> trk \div heads, head |-> trk % heads]

\* mutant: the flag does not depend on the control unit
RegularDataFormat_any_unit(cdl, trk) == ~(cdl /\ trk < 2)

\* "Regular Data Format Mode": ga_extended |= 0x40
RegularDataFormat(cdl, trk) ==
    private.cu_type \in {8453, 8455, 5968} /\ ~(cdl /\ trk < 2)

\* the extent data shared by define_extent and prefix
ExtentData(trk, totrk, cmd, cdl, clock) ==
    LET x == IF cmd \in WriteCmds \cup WriteCkdCmds \cup EraseCmds
             THEN check_XRC(clock)
             ELSE [rc |-> "OK", ga |-> {}, xrc |-> FALSE]
        perm == Permission(cmd)
        op == CASE cmd \in ReadCmds \cup WriteCmds -> private.attrib.operation
                [] cmd \in WriteCkdCmds \cup EraseCmds -> "DASD_BYPASS_CACHE"
                [] OTHER -> "DASD_NORMAL_CACHE"
        rdf == IF RegularDataFormat(cdl, trk)
               THEN {"REGULAR_DATA_FORMAT"} ELSE {}
        geo == [cyl |-> private.no_cyl, head |-> private.trk_per_cyl]
        endcyl == totrk \div geo.head
        ext == ExtendEnd(endcyl, op)
    IN [rc |-> x.rc, xrc |-> x.xrc,
        data |-> [perm |-> perm, auth |-> IF cmd \in EraseCmds THEN 1 ELSE 0,
                  operation |-> op, mode |-> 3, ga_extended |-> x.ga \cup rdf,
                  beg_ext |-> TrackAddr(trk, geo.head),
                  end_ext |-> [cyl |-> ext, head |-> totrk % geo.head],
                  validity |-> {}]]

define_extent(trk, totrk, cmd, device, clock) ==
    LET e == ExtentData(trk, totrk, cmd, UsesCdl(device), clock)
    IN [rc |-> e.rc, data |-> e.data,
        ccw |-> [cmd_code |-> "DEFINE_EXTENT",
                 count |-> IF e.xrc THEN 0 ELSE 16,
                 sz |-> IF e.xrc THEN "DE_eckd_data" ELSE "",
                 cda |-> DeAddr,
                 flags |-> IF e.xrc THEN {"SLI"} ELSE {}]]

prefix(trk, totrk, cmd, basedev, startdev, clock) ==
    LET e == ExtentData(trk, totrk, cmd, UsesCdl(basedev), clock)
        val == {"define_extend"}
               \cup (IF UidType(startdev) # "UA_BASE_DEVICE" THEN {"verify_base"} ELSE {})
               \cup (IF UidType(startdev) = "UA_HYPER_PAV_ALIAS" THEN {"hyper_pav"} ELSE {})
               \cup (IF e.xrc THEN {"time_stamp"} ELSE {})
    IN [rc |-> e.rc, data |-> [e.data EXCEPT !.validity = val],
        ccw |-> [cmd_code |-> "PFX", count |-> 0, sz |-> "PFX_eckd_data",
                 cda |-> DeAddr, flags |-> {}]]

\* mutant: record zero is written with the orientation of the home address
LocateTable_r0_as_ha(cmd) ==
    CASE cmd = "WRITE_HOME_ADDRESS" -> <<3, 3, 0, FALSE>>
      [] cmd = "READ_HOME_ADDRESS" -> <<3, 22, 0, FALSE>>
      [] cmd = "WRITE_RECORD_ZERO" -> <<3, 3, 1, FALSE>>
      [] cmd = "READ_RECORD_ZERO" -> <<3, 22, 1, FALSE>>
      [] cmd \in WriteCmds -> <<0, 1, 0, TRUE>>
      [] cmd \in WriteCkdCmds -> <<0, 3, 0, TRUE>>
      [] cmd \in {"READ", "READ_MT", "READ_KD", "READ_KD_MT"} -> <<0, 6, 0, TRUE>>
      [] cmd \in {"READ_CKD", "READ_CKD_MT"} -> <<0, 22, 0, TRUE>>
      [] cmd = "READ_COUNT" -> <<0, 6, 0, FALSE>>
      [] cmd = "ERASE" -> <<0, 11, 0, TRUE>>
      [] OTHER -> <<0, 0, 0, FALSE>>

\* the switch of locate_record: orientation, operation, what is added to the
\* count, and whether length and last_bytes_used are set
LocateTable(cmd) ==
    CASE cmd = "WRITE_HOME_ADDRESS" -> <<3, 3, 0, FALSE>>
      [] cmd = "READ_HOME_ADDRESS" -> <<3, 22, 0, FALSE>>
      [] cmd = "WRITE_RECORD_ZERO" -> <<1, 3, 1, FALSE>>
      [] cmd = "READ_RECORD_ZERO" -> <<3, 22, 1, FALSE>>
      [] cmd \in WriteCmds -> <<0, 1, 0, TRUE>>
      [] cmd \in WriteCkdCmds -> <<0, 3, 0, TRUE>>
      [] cmd \in {"READ", "READ_MT", "READ_KD", "READ_KD_MT"} -> <<0, 6, 0, TRUE>>
      [] cmd \in {"READ_CKD", "READ_CKD_MT"} -> <<0, 22, 0, TRUE>>
      [] cmd = "READ_COUNT" -> <<0, 6, 0, FALSE>>
      [] cmd = "ERASE" -> <<0, 11, 0, TRUE>>
      [] OTHER -> <<0, 0, 0, FALSE>>

\* the payload written by locate_record
locate_record(trk, rec_on_trk, no_rec, cmd, reclen) ==
    LET dt == private.dev_type
        sector ==
            IF rec_on_trk = 0 THEN 0
            ELSE CASE dt = 13200 ->
                        LET dn == ceil_quot(reclen + 6, 232)
                            d == 9 + ceil_quot(reclen + 6 * (dn + 1), 34)
                        IN (49 + (rec_on_trk - 1) * (10 + d)) \div 8
                   [] dt = 13184 ->
                        LET d == 7 + ceil_quot(reclen + 12, 32)
                        IN (39 + (rec_on_trk - 1) * (8 + d)) \div 7
                   [] OTHER -> 0
        oo == LocateTable(cmd)
    IN [sector |-> sector, count |-> no_rec + oo[3],
        orientation |-> oo[1], operation |-> oo[2],
        length |-> IF oo[4] THEN reclen ELSE 0,
        last_bytes_used |-> IF oo[4] THEN 1 ELSE 0,
        cyl |-> TrackAddr(trk, private.trk_per_cyl).cyl,
        head |-> TrackAddr(trk, private.trk_per_cyl).head,
        record |-> rec_on_trk]

(* ------------------------------------------------------------------ *)
(* dasd_eckd_build_cp                                                 *)
(* ------------------------------------------------------------------ *)
\* number of blocks of a segment: bv_len >> (s2b_shift + 9)
SegBlocks(seg) == seg.bv_len \div block.bp_block

\* mutant: only the first segment is counted
SumBlocks_first(segs) == IF segs = <<>> THEN 0 ELSE SegBlocks(Head(segs))

RECURSIVE SumBlocks(_)
SumBlocks(segs) ==
    IF segs = <<>> THEN 0 ELSE SegBlocks(Head(segs)) + SumBlocks(Tail(segs))

RECURSIVE SumHighBlocks(_)
SumHighBlocks(segs) ==
    IF segs = <<>> THEN 0
    ELSE (IF Head(segs).high THEN SegBlocks(Head(segs)) ELSE 0) + SumHighBlocks(Tail(segs))

\* rq_for_each_segment x for (off = 0; off < bv_len; off += blksize), in order
RECURSIVE FlatBlocks(_, _)
FlatBlocks(segs, s) ==
    IF s > Len(segs) THEN <<>>
    ELSE [j \in 1..SegBlocks(segs[s]) |-> [s |-> s, j |-> j]] \o FlatBlocks(segs, s + 1)

\* idal_is_needed: only caller memory above 2GB needs an indirect address word;
\* the pool's buffers are GFP_DMA memory
idal_is_needed(req, a) == a.k = "seg" /\ req.segs[a.id].high

\* mutant: the preceding command word is left unchained
SetCC_skipped(ccws) == ccws

\* ccw[-1].flags |= CCW_FLAG_CC
SetCC(ccws) == [ccws EXCEPT ![Len(ccws)].flags = @ \cup {"CC"}]

\* ccw[-1].flags |= CCW_FLAG_CC; locate_record(ccw++, LO_data++, ...)
EmitLocate(st, lo) ==
    [st EXCEPT !.ccw = Append(SetCC(st.ccw),
                              [cmd_code |-> "LOCATE_RECORD", count |-> 16, sz |-> "",
                               cda |-> LoAddr(Len(st.lo) + 1), flags |-> {}]),
               !.lo = Append(st.lo, lo)]

\* mutant: the boundary record 2*blk_per_trk gets no locate record of its own
NeedsRangeLocate_never(cdl, recid, blk_per_trk) == FALSE

\* "Locate record for standard blocks ?"
NeedsRangeLocate(cdl, recid, blk_per_trk) == cdl /\ recid = 2 * blk_per_trk

\* mutant: only the special records get a locate record of their own
NeedsOwnLocate_special_only(cdl, recid, blk_per_trk) ==
    RecSpecial(cdl, blk_per_trk, recid)

\* "Locate record for cdl special block ?"
NeedsOwnLocate(cdl, recid, blk_per_trk) == cdl /\ recid < 2 * blk_per_trk

\* one pass of the inner loop of build_cp: the descriptors of one block
BlockStep(st, b, x) ==
    LET recid == st.recid
        trkid == recid \div x.blk_per_trk
        recoffs == recid % x.blk_per_trk
        special == RecSpecial(x.cdl, x.blk_per_trk, recid)
        rcmd == IF special THEN OrKd(x.cmd) ELSE x.cmd
        cnt == RecCount(x.cdl, x.blk_per_trk, recid, x.blksize)
        st1 == IF NeedsOwnLocate(x.cdl, recid, x.blk_per_trk)
               THEN EmitLocate(st, locate_record(trkid, recoffs + 1, 1, rcmd, cnt))
               ELSE st
        st2 == IF NeedsRangeLocate(x.cdl, recid, x.blk_per_trk)
               THEN EmitLocate(st1, locate_record(trkid, recoffs + 1,
                                                  x.last_rec - recid + 1, x.cmd, cnt))
               ELSE st1
        dst == IF x.copies[b.s] # 0 THEN BufAddr(x.copies[b.s], b.j) ELSE SegAddr(b.s, b.j)
        ida == idal_is_needed(x.req, dst)
        data == [cmd_code |-> rcmd, count |-> cnt, sz |-> "",
                 cda |-> IF ida THEN IdawAddr(Len(st2.idaws) + 1) ELSE dst,
                 flags |-> IF ida THEN {"IDA"} ELSE {}]
    IN [st2 EXCEPT !.ccw = Append(SetCC(st2.ccw), data),
                   !.idaws = IF ida THEN Append(@, dst) ELSE @,
                   !.fill = IF special /\ cnt < x.blksize /\ x.req.dir = "READ"
                            THEN @ \cup {dst} ELSE @,
                   !.recid = recid + 1]

RECURSIVE BuildLoop(_, _, _)
BuildLoop(st, blocks, x) ==
    IF blocks = <<>> THEN st
    ELSE BuildLoop(BlockStep(st, Head(blocks), x), Tail(blocks), x)

Failed(rc) == [rc |-> rc]

\* mutant: the records below the boundary are given no locate record of their own
ExtraLocates_none(cdl, first_rec, last_rec, blk_per_trk, cnt) == 0

\* "Find out the number of additional locate record ccws for cdl."
ExtraLocates(cdl, first_rec, last_rec, blk_per_trk, cnt) ==
    IF cdl /\ first_rec < 2 * blk_per_trk
    THEN IF last_rec >= 2 * blk_per_trk THEN 2 * blk_per_trk - first_rec ELSE cnt
    ELSE 0

\* copies[s]: the buffer kmem_cache_alloc returned for segment s, 0 for NULL
build_cp(startdev, basedev, req, copies, clock, alloc_ok) ==
    LET cmd == IF req.dir = "READ" THEN "READ_MT" ELSE "WRITE_MT"
        blksize == block.bp_block
        blk_per_trk == recs_per_track(private.dev_type, 0, blksize)
        shift == 2 ^ block.s2b_shift
        first_rec == req.sector \div shift
        first_trk == first_rec \div blk_per_trk
        first_offs == first_rec % blk_per_trk
        last_rec == (req.sector + req.nr_sectors - 1) \div shift
        last_trk == last_rec \div blk_per_trk
        cnt == SumBlocks(req.segs)
        cidaw == SumHighBlocks(req.segs)
        cdl == private.uses_cdl
        extra == ExtraLocates(cdl, first_rec, last_rec, blk_per_trk, cnt)
        first == IF private.prefix
                 THEN prefix(first_trk, last_trk, cmd, basedev, startdev, clock)
                 ELSE define_extent(first_trk, last_trk, cmd, startdev, clock)
        st0 == [ccw |-> <<first.ccw>>, lo |-> <<>>, idaws |-> <<>>, fill |-> {},
                recid |-> first_rec]
        st1 == IF ~cdl \/ first_rec > 2 * blk_per_trk
               THEN EmitLocate(st0, locate_record(first_trk, first_offs + 1,
                                                  last_rec - first_rec + 1, cmd, blksize))
               ELSE st0
        x == [cdl |-> cdl, blk_per_trk |-> blk_per_trk, blksize |-> blksize, cmd |-> cmd,
              last_rec |-> last_rec, copies |-> copies, req |-> req]
        st == BuildLoop(st1, FlatBlocks(req.segs, 1), x)
    IN IF req.dir \notin {"READ", "WRITE"} THEN Failed("EINVAL")
       ELSE IF \E s \in 1..Len(req.segs) : req.segs[s].bv_len % blksize # 0
       THEN Failed("EINVAL")
       ELSE IF cnt # last_rec - first_rec + 1 THEN Failed("EINVAL")
       ELSE IF ~alloc_ok THEN Failed("ENOMEM")
       ELSE IF first.rc = "EAGAIN" THEN Failed("EAGAIN")
       ELSE [rc |-> "OK", fill |-> st.fill, copies |-> copies,
             cqr |-> [status |-> "FILLED", startdev |-> startdev, memdev |-> startdev,
                      block |-> basedev, cplength |-> 2 + cnt + extra,
                      lo_size |-> 1 + extra, idaw_size |-> cidaw,
                      cpaddr |-> st.ccw, data |-> first.data, lo |-> st.lo,
                      idaws |-> st.idaws, retries |-> 256]]

(* ------------------------------------------------------------------ *)
(* dasd_eckd_free_cp                                                  *)
(* ------------------------------------------------------------------ *)
Wild == [k |-> "wild", id |-> 0, j |-> 0]

\* mutant: the locate record of the boundary record 2*blk_per_trk is not skipped
SkipsLocate_below_only(cdl, recid, blk_per_trk) == cdl /\ recid < 2 * blk_per_trk

\* "Skip locate record."
SkipsLocate(cdl, recid, blk_per_trk) == cdl /\ recid <= 2 * blk_per_trk

\* the address a data descriptor transfers to or from: ccw->cda, or the first
\* indirect address word when CCW_FLAG_IDA is set
CcwTarget(cqr, i) ==
    IF i > Len(cqr.cpaddr) THEN Wild
    ELSE LET ccw == cqr.cpaddr[i]
         IN IF "IDA" \in ccw.flags
            THEN IF ccw.cda.k = "idaw" /\ ccw.cda.id <= Len(cqr.idaws)
                 THEN cqr.idaws[ccw.cda.id] ELSE Wild
            ELSE ccw.cda

\* one pass of the inner loop of free_cp; cda collects, per segment, the address
\* found in the descriptor of the segment's first block
FreeStep(st, b, cqr, blk_per_trk) ==
    LET i == IF SkipsLocate(private.uses_cdl, st.recid, blk_per_trk)
             THEN st.i + 1 ELSE st.i
    IN [i |-> i + 1, recid |-> st.recid + 1,
        cda |-> IF b.j = 1 THEN Append(st.cda, CcwTarget(cqr, i)) ELSE st.cda]

RECURSIVE FreeLoop(_, _, _, _)
FreeLoop(st, blocks, cqr, blk_per_trk) ==
    IF blocks = <<>> THEN st
    ELSE FreeLoop(FreeStep(st, Head(blocks), cqr, blk_per_trk), Tail(blocks),
                  cqr, blk_per_trk)

\* per segment, the cda free_cp compares with the segment's own address
FreeWalk(cqr, req) ==
    LET blk_per_trk == recs_per_track(private.dev_type, 0, block.bp_block)
        recid == req.sector \div (2 ^ block.s2b_shift)
        i0 == IF ~private.uses_cdl \/ recid > 2 * blk_per_trk THEN 3 ELSE 2
    IN FreeLoop([i |-> i0, recid |-> recid, cda |-> <<>>],
                FlatBlocks(req.segs, 1), cqr, blk_per_trk).cda

\* mutant: free_cp copies the buffer back for a write instead of a read
CopiesBack_write(req) == req.dir = "WRITE"

\* "if (rq_data_dir(req) == READ) memcpy(dst, cda, bv->bv_len)"
CopiesBack(req) == req.dir = "READ"

\* the bytes memcpy(dst, cda, bv_len) reads for block j of the segment
MemAt(cda, j) ==
    IF cda.k = "buf" /\ cda.id \in Buffers /\ cda.j + j - 1 <= Len(bufmem[cda.id])
    THEN bufmem[cda.id][cda.j + j - 1]
    ELSE Junk

\* mutant: free_cp takes every segment for a substituted one
Substituted_all(cdas) == 1..Len(cdas)

\* the segments whose descriptor does not point at the caller's memory
Substituted(cdas) == {s \in 1..Len(cdas) : cdas[s] # SegAddr(s, 1)}

\* caller memory after free_cp
FreeCpMem(req, cdas) ==
    [req EXCEPT !.segs =
        [s \in 1..Len(req.segs) |->
            IF s \in Substituted(cdas) /\ CopiesBack(req)
            THEN [req.segs[s] EXCEPT !.mem = [j \in 1..Len(@) |-> MemAt(cdas[s], j)]]
            ELSE req.segs[s]]]

\* kmem_cache_free(dasd_page_cache, cda & PAGE_MASK) for every substituted segment
Released(cdas) == {cdas[s].id : s \in {t \in Substituted(cdas) : cdas[t].k = "buf"}}
BadRelease(cdas) ==
    \/ \E s \in Substituted(cdas) : cdas[s].k # "buf" \/ cdas[s].id \in pool
    \/ \E s, t \in Substituted(cdas) : s # t /\ cdas[s].k = "buf" /\ cdas[t].k = "buf"
                                        /\ cdas[s].id = cdas[t].id

(* ------------------------------------------------------------------ *)
(* Inputs                                                             *)
(* ------------------------------------------------------------------ *)
\* a segment lies within one page
SegMax == PAGE_SIZE \div block.bp_block

RECURSIVE Compositions(_)
Compositions(n) ==
    IF n = 0 THEN {<<>>}
    ELSE UNION {{<<k>> \o c : c \in Compositions(n - k)} : k \in 1..(IF n < SegMax THEN n ELSE SegMax)}

Seg(n, high) == [bv_len |-> n * block.bp_block, high |-> high, mem |-> [j \in 1..n |-> User]]

\* where the n segments of a request lie: all below 2GB, all above, or only the
\* last above
HighChoices(n) ==
    {[s \in 1..n |-> FALSE], [s \in 1..n |-> TRUE], [s \in 1..n |-> s = n]}

\* the segment lists of the requests: every split of 1..MaxBlocks blocks into
\* segments
SegLists ==
    UNION {UNION {{[s \in 1..Len(c) |-> Seg(c[s], h[s])] : h \in HighChoices(Len(c))}
                  : c \in Compositions(n)} : n \in 1..MaxBlocks}

\* a block-layer request for the records first_rec .. first_rec + blocks - 1;
\* bad = "len" shortens the first segment by one sector, bad = "long" lengthens
\* it by one sector, bad = "range" makes the sector range one block longer than
\* the segments
Request(dir, first_rec, segs, bad) ==
    LET spb == 2 ^ block.s2b_shift
    IN [dir |-> dir, sector |-> first_rec * spb,
        nr_sectors |-> (SumBlocks(segs) + IF bad = "range" THEN 1 ELSE 0) * spb,
        segs |-> CASE bad = "len" -> [segs EXCEPT ![1].bv_len = @ - 512]
                   [] bad = "long" -> [segs EXCEPT ![1].bv_len = @ + 512]
                   [] OTHER -> segs]

BlkPerTrk == recs_per_track(private.dev_type, 0, block.bp_block)

\* the first records of the requests: around the special records of track 0,
\* around the start of track 1, and around record 2*blk_per_trk, so that a request
\* lies on either side of each or across it
FirstRecs ==
    (0..3) \cup ((BlkPerTrk - MaxBlocks + 1)..(BlkPerTrk + 1))
           \cup ((2 * BlkPerTrk - MaxBlocks)..(2 * BlkPerTrk + 1))

Requests ==
    {Request(dir, first_rec, segs, bad) :
        dir \in Dirs, first_rec \in FirstRecs, segs \in SegLists,
        bad \in {"none", "len", "range"}}

\* one read of one block at record 0, in low memory
OneBlockRead == {Request("READ", 0, <<Seg(1, FALSE)>>, "none")}

Min(S) == CHOOSE x \in S : \A y \in S : x <= y

\* kmem_cache_alloc per segment: got[s] tells whether the allocation for segment s
\* succeeds; it fails anyway when the pool is empty
RECURSIVE AssignCopies(_, _, _)
AssignCopies(got, s, free) ==
    IF s > Len(got) THEN <<>>
    ELSE IF got[s] /\ free # {}
         THEN <<Min(free)>> \o AssignCopies(got, s + 1, free \ {Min(free)})
         ELSE <<0>> \o AssignCopies(got, s + 1, free)

CopyChoices(req) ==
    IF dasd_page_cache
    THEN {AssignCopies(got, 1, pool) : got \in [1..Len(req.segs) -> BOOLEAN]}
    ELSE {[s \in 1..Len(req.segs) |-> 0]}

\* get_sync_clock is called for a write on a volume with XRC only
ClockChoices(req) ==
    IF private.XRC_supported /\ req.dir = "WRITE" THEN ClockRcs ELSE {"OK"}

(* ------------------------------------------------------------------ *)
(* Initial states                                                     *)
(* ------------------------------------------------------------------ *)
Geometry == [cu_type |-> 8455, no_cyl |-> NoCyl, trk_per_cyl |-> TrkPerCyl,
             attrib |-> [operation |-> "DASD_NORMAL_CACHE", nr_cyl |-> 0]]

Private(dt, cdl, pfx, xrc) ==
    [dev_type |-> dt, uses_cdl |-> cdl, prefix |-> pfx, XRC_supported |-> xrc,
     cu_type |-> Geometry.cu_type, no_cyl |-> Geometry.no_cyl,
     trk_per_cyl |-> Geometry.trk_per_cyl, attrib |-> Geometry.attrib]

RECURSIVE Log2(_)
Log2(n) == IF n <= 1 THEN 0 ELSE 1 + Log2(n \div 2)

Block(bs) == [bp_block |-> bs, s2b_shift |-> Log2(bs \div 512)]

\* addr.c before any request: empty req_list, work not queued, the client
\* registered (rdma_addr_register_client sets refcount to 1)
AddrReqs == 1..MaxAddrReqs
NoAddrReq == [state |-> "none", status |-> "none", timeout |-> 0, calls |-> 0,
              result |-> "none", cancelled |-> FALSE]
NoWork == [state |-> "idle", delay |-> 0]
InitIbAddr ==
    /\ req_list = <<>>
    /\ areq = [i \in AddrReqs |-> NoAddrReq]
    /\ work = NoWork
    /\ worker = [at |-> "idle", done_list |-> <<>>]
    /\ refcount = 1
    /\ net = "idle"

InitRest ==
    /\ InitIbAddr
    /\ count = [d \in Devices |-> 0]
    /\ lock = [d \in Devices |-> "free"]
    /\ pool = Buffers
    /\ bufmem = [b \in Buffers |-> <<>>]
    /\ pool_err = FALSE
    /\ reqs = [r \in ReqIds |-> NoReq]
    /\ cqrs = [r \in ReqIds |-> NoCqr]
    /\ pc = [p \in Bases |-> Idle]
    /\ calc = [fn |-> "none"]

\* a 3390 volume in either layout, with or without the prefix command and XRC
Init ==
    /\ private \in {Private(13200, cdl, pfx, xrc) :
                      cdl \in BOOLEAN, pfx \in BOOLEAN, xrc \in BOOLEAN}
    /\ block \in {Block(bs) : bs \in BlockSizes}
    /\ dasd_page_cache \in BOOLEAN
    /\ InitRest

(* ------------------------------------------------------------------ *)
(* dasd_eckd_build_alias_cp                                           *)
(* ------------------------------------------------------------------ *)
Busy(p) == pc[p].at # "idle"
Reserved == {pc[q].r : q \in {q \in Bases : Busy(q)}}
FreeSlots(slots) == {r \in slots : cqrs[r].status \in {"NONE", "FREED"}} \ Reserved

\* "startdev = dasd_alias_get_start_dev(base); if (!startdev) startdev = base":
\* routed holds what dasd_alias_get_start_dev may return, "none" for NULL
StartDevs(p, routed) == {IF a = "none" THEN p ELSE a : a \in routed}

\* mutant: the queue counts as full only above the maximum
ChanqFull_above(n) == n > DASD_ECKD_CHANQ_MAX_SIZE

\* "if (private->count >= DASD_ECKD_CHANQ_MAX_SIZE) return ERR_PTR(-EBUSY)"
ChanqFull(n) == n >= DASD_ECKD_CHANQ_MAX_SIZE

\* lines 1800-1805: choose the start device and test its counter, without the lock
AliasCheck(p, slots, routed) ==
    /\ pc[p].at = "idle"
    /\ \E sd \in StartDevs(p, routed) :
         \/ /\ ChanqFull(count[sd])
            /\ pc' = [pc EXCEPT ![p] = [at |-> "idle", sd |-> sd, r |-> 0, ret |-> "EBUSY"]]
            /\ UNCHANGED <<reqs, cqrs>>
         \/ /\ ~ChanqFull(count[sd])
            /\ FreeSlots(slots) # {}
            /\ LET r == Min(FreeSlots(slots))
               IN /\ pc' = [pc EXCEPT ![p] = [at |-> "lock", sd |-> sd, r |-> r,
                                              ret |-> "none"]]
                  \* the request that used the slot before has ended
                  /\ reqs' = [reqs EXCEPT ![r] = NoReq]
                  /\ cqrs' = [cqrs EXCEPT ![r] = NoCqr]
    /\ UNCHANGED <<private, block, count, lock, dasd_page_cache, pool, bufmem, pool_err,
                   calc, ib_addr>>

\* mutant: the lock of the device is kept
spin_unlock_irqrestore_skipped(l, d) == l

\* spin_unlock_irqrestore(get_ccwdev_lock(d->cdev), flags)
spin_unlock_irqrestore(l, d) == [l EXCEPT ![d] = "free"]

\* lines 1807-1808: spin_lock_irqsave; private->count++
AliasLock(p) ==
    /\ pc[p].at = "lock"
    /\ lock[pc[p].sd] = "free"
    /\ lock' = [lock EXCEPT ![pc[p].sd] = p]
    /\ count' = [count EXCEPT ![pc[p].sd] = @ + 1]
    /\ pc' = [pc EXCEPT ![p].at = "build"]
    /\ UNCHANGED <<private, block, dasd_page_cache, pool, bufmem, pool_err, reqs, cqrs, calc, ib_addr>>

\* contents of the copy buffer of segment s after build_cp
BuiltBuf(req, s, b, fill) ==
    IF req.dir = "WRITE" THEN req.segs[s].mem
    ELSE [j \in 1..Len(req.segs[s].mem) |->
             IF BufAddr(b, j) \in fill THEN [Junk EXCEPT !.hi = "e5"] ELSE Junk]

\* caller memory after build_cp: memset(dst + count, 0xe5, blksize - count)
BuiltReq(req, fill) ==
    [req EXCEPT !.segs =
        [s \in 1..Len(req.segs) |->
            [req.segs[s] EXCEPT !.mem =
                [j \in 1..Len(@) |-> IF SegAddr(s, j) \in fill
                                     THEN [@[j] EXCEPT !.hi = "e5"] ELSE @[j]]]]]

\* mutant: the counter keeps the increment when the build fails
CountOnError_kept(n) == n

\* "if (IS_ERR(cqr)) private->count--"
CountOnError(n) == n - 1

\* lines 1809-1813: build_cp under the lock; count-- on error; unlock; return
AliasBuildCp(p, inputs) ==
    /\ pc[p].at = "build"
    /\ \E req \in inputs, alloc_ok \in BOOLEAN :
       \E copies \in CopyChoices(req), clock \in ClockChoices(req) :
         LET sd == pc[p].sd
             r == pc[p].r
             res == build_cp(sd, p, req, copies, clock, alloc_ok)
             used == {copies[s] : s \in 1..Len(copies)} \ {0}
         IN IF res.rc = "OK"
            THEN /\ cqrs' = [cqrs EXCEPT ![r] = res.cqr]
                 /\ reqs' = [reqs EXCEPT ![r] = BuiltReq(req, res.fill)]
                 /\ pool' = pool \ used
                 /\ bufmem' = [b \in Buffers |->
                                 IF b \in used
                                 THEN BuiltBuf(req, CHOOSE s \in 1..Len(copies) : copies[s] = b,
                                               b, res.fill)
                                 ELSE bufmem[b]]
                 /\ count' = count
                 /\ pc' = [pc EXCEPT ![p] = [Idle EXCEPT !.ret = "CQR"]]
            ELSE /\ count' = [count EXCEPT ![sd] = CountOnError(@)]
                 /\ pc' = [pc EXCEPT ![p] = [Idle EXCEPT !.ret = res.rc]]
                 /\ UNCHANGED <<cqrs, reqs, pool, bufmem>>
    /\ lock' = spin_unlock_irqrestore(lock, pc[p].sd)
    /\ UNCHANGED <<private, block, dasd_page_cache, pool_err, calc, ib_addr>>

(* ------------------------------------------------------------------ *)
(* dasd_eckd_free_alias_cp                                            *)
(* ------------------------------------------------------------------ *)
Finalizable == {"FILLED", "DONE", "ERROR", "TIMEDOUT"}

\* lines 1822-1825: lock; memdev's count--; unlock
FreeAliasCp(p, r) ==
    /\ pc[p].at = "idle"
    /\ cqrs[r].status \in Finalizable
    /\ cqrs[r].block = p
    /\ lock[cqrs[r].memdev] = "free"
    /\ count' = [count EXCEPT ![cqrs[r].memdev] = @ - 1]
    /\ lock' = spin_unlock_irqrestore([lock EXCEPT ![cqrs[r].memdev] = p], cqrs[r].memdev)
    /\ pc' = [pc EXCEPT ![p] = [at |-> "free_cp", sd |-> cqrs[r].memdev, r |-> r,
                                ret |-> "none"]]
    /\ UNCHANGED <<private, block, dasd_page_cache, pool, bufmem, pool_err,
                   reqs, cqrs, calc, ib_addr>>

\* line 1826: dasd_eckd_free_cp
\* mutant: everything but an error counts as success
FreeStatus_not_error(cqr) == IF cqr.status # "ERROR" THEN "1" ELSE "0"

\* status = cqr->status == DASD_CQR_DONE
FreeStatus(cqr) == IF cqr.status = "DONE" THEN "1" ELSE "0"

FreeCp(p) ==
    /\ pc[p].at = "free_cp"
    /\ cqrs[pc[p].r].status \in Finalizable
    /\ LET r == pc[p].r
           cdas == IF dasd_page_cache THEN FreeWalk(cqrs[r], reqs[r])
                   ELSE [s \in 1..Len(reqs[r].segs) |-> SegAddr(s, 1)]
       IN /\ reqs' = [reqs EXCEPT ![r] = FreeCpMem(reqs[r], cdas)]
          /\ pool' = pool \cup (Released(cdas) \cap Buffers)
          /\ bufmem' = [b \in Buffers |-> IF b \in Released(cdas) THEN <<>> ELSE bufmem[b]]
          /\ pool_err' = (pool_err \/ BadRelease(cdas))
          /\ cqrs' = [cqrs EXCEPT ![r] = FreedCqr]
          /\ pc' = [pc EXCEPT ![p] = [Idle EXCEPT !.ret = FreeStatus(cqrs[r])]]
    /\ UNCHANGED <<private, block, count, lock, dasd_page_cache, calc, ib_addr>>

(* ------------------------------------------------------------------ *)
(* The device executor                                                *)
(* ------------------------------------------------------------------ *)
DataCmds == {"READ_MT", "READ_KD_MT", "WRITE_MT", "WRITE_KD_MT"}
DataIdx(cqr) == {i \in 1..Len(cqr.cpaddr) : cqr.cpaddr[i].cmd_code \in DataCmds}
Targets(cqr) == {CcwTarget(cqr, i) : i \in DataIdx(cqr)}

InHand(r) == \E p \in Bases : Busy(p) /\ pc[p].r = r

\* the request is handed to the channel
ExecStart(r) ==
    /\ cqrs[r].status = "FILLED"
    /\ ~InHand(r)
    /\ cqrs' = [cqrs EXCEPT ![r].status = "IN_IO"]
    /\ UNCHANGED <<private, block, count, lock, dasd_page_cache, pool, bufmem, pool_err,
                   reqs, pc, calc, ib_addr>>

\* the channel program ends; a read that ends well has stored each record at the
\* address of its data descriptor
ExecEnd(r) ==
    /\ cqrs[r].status = "IN_IO"
    /\ \E outcome \in {"DONE", "ERROR", "TIMEDOUT"} :
         LET stored == IF outcome = "DONE" /\ reqs[r].dir = "READ"
                       THEN Targets(cqrs[r]) ELSE {}
         IN /\ cqrs' = [cqrs EXCEPT ![r].status = outcome]
            /\ reqs' = [reqs EXCEPT ![r].segs =
                          [s \in 1..Len(@) |->
                             [@[s] EXCEPT !.mem =
                                [j \in 1..Len(@) |->
                                   IF SegAddr(s, j) \in stored
                                   THEN [@[j] EXCEPT !.lo = "disk"] ELSE @[j]]]]]
            /\ bufmem' = [b \in Buffers |->
                            [j \in 1..Len(bufmem[b]) |->
                               IF BufAddr(b, j) \in stored
                               THEN [bufmem[b][j] EXCEPT !.lo = "disk"] ELSE bufmem[b][j]]]
    /\ UNCHANGED <<private, block, count, lock, dasd_page_cache, pool, pool_err, pc, calc, ib_addr>>

(* ------------------------------------------------------------------ *)
(* Specification: one volume, one request at a time, every request    *)
(* ------------------------------------------------------------------ *)
Next ==
    \/ AliasCheck("base1", {1}, {"none"})
    \/ AliasLock("base1")
    \/ AliasBuildCp("base1", Requests)
    \/ FreeAliasCp("base1", 1)
    \/ FreeCp("base1")
    \/ ExecStart(1)
    \/ ExecEnd(1)

Spec == Init /\ [][Next]_vars

(* ------------------------------------------------------------------ *)
(* Specification: two base volumes that share one alias device        *)
(* ------------------------------------------------------------------ *)
InitConc ==
    /\ private = Private(13200, FALSE, TRUE, FALSE)
    /\ block = Block(2048)
    /\ dasd_page_cache = FALSE
    /\ InitRest

NextConc ==
    \E p \in Bases :
        \/ AliasCheck(p, ReqIds, {"alias"})
        \/ AliasLock(p)
        \/ AliasBuildCp(p, OneBlockRead)
        \/ \E r \in ReqIds : FreeAliasCp(p, r)
        \/ FreeCp(p)

SpecConc == InitConc /\ [][NextConc]_vars

(* ------------------------------------------------------------------ *)
(* Specification: the free path entered again for a freed request     *)
(* ------------------------------------------------------------------ *)
\* lines 1822-1825 for a request dasd_sfree_request has released: cqr->memdev is
\* read from released memory, so the counter of any device is decremented
FreeAliasCpAgain(p, r) ==
    /\ pc[p].at = "idle"
    /\ cqrs[r] = FreedCqr
    /\ \E memdev \in Devices :
         /\ lock[memdev] = "free"
         /\ count' = [count EXCEPT ![memdev] = @ - 1]
         /\ pc' = [pc EXCEPT ![p] = [at |-> "free_cp_again", sd |-> memdev, r |-> r,
                                     ret |-> "none"]]
    /\ UNCHANGED <<private, block, lock, dasd_page_cache, pool, bufmem, pool_err,
                   reqs, cqrs, calc, ib_addr>>

\* line 1826 for a released request: free_cp walks released descriptors, so it
\* releases any set of buffers, and for a read may copy from any address to the
\* caller's memory; dasd_sfree_request releases the request again
FreeCpAgain(p) ==
    /\ pc[p].at = "free_cp_again"
    /\ LET r == pc[p].r
       IN \E rel \in (IF dasd_page_cache THEN SUBSET Buffers ELSE {{}}),
             copied \in (IF dasd_page_cache /\ CopiesBack(reqs[r])
                         THEN SUBSET (1..Len(reqs[r].segs)) ELSE {{}}),
             ret \in {"0", "1"} :
            /\ pool' = pool \cup rel
            /\ bufmem' = [b \in Buffers |-> IF b \in rel THEN <<>> ELSE bufmem[b]]
            /\ pool_err' = TRUE
            /\ reqs' = [reqs EXCEPT ![r].segs =
                          [s \in 1..Len(@) |->
                             IF s \in copied
                             THEN [@[s] EXCEPT !.mem = [j \in 1..Len(@) |-> Junk]]
                             ELSE @[s]]]
            /\ cqrs' = [cqrs EXCEPT ![r] = [status |-> "REFREED"]]
            /\ pc' = [pc EXCEPT ![p] = [Idle EXCEPT !.ret = ret]]
    /\ UNCHANGED <<private, block, count, lock, dasd_page_cache, calc, ib_addr>>

\* the requests of this specification: records 2 and on, every split into segments
RefreeRequests ==
    {Request(dir, 2, segs, "none") : dir \in {"READ", "WRITE"}, segs \in SegLists}

NextRefree ==
    \/ AliasCheck("base1", {1}, {"none"})
    \/ AliasLock("base1")
    \/ AliasBuildCp("base1", RefreeRequests)
    \/ FreeAliasCp("base1", 1)
    \/ FreeCp("base1")
    \/ ExecStart(1)
    \/ ExecEnd(1)
    \/ FreeAliasCpAgain("base1", 1)
    \/ FreeCpAgain("base1")

SpecRefree == Init /\ [][NextRefree]_vars

(* ------------------------------------------------------------------ *)
(* Specification: the record classifier on its own                    *)
(* ------------------------------------------------------------------ *)
GeoBlockSizes == {512, 1024, 2048, 4096}

InitGeo ==
    /\ private \in {Private(13200, cdl, FALSE, FALSE) : cdl \in BOOLEAN}
    /\ block \in {Block(bs) : bs \in GeoBlockSizes}
    /\ dasd_page_cache = FALSE
    /\ InitRest

\* lines 1661-1667 of build_cp for one record: rcmd and count
Classify(blk_per_trk, recid) ==
    /\ calc' = [fn |-> "cdl", blk_per_trk |-> blk_per_trk, recid |-> recid,
                special |-> RecSpecial(private.uses_cdl, blk_per_trk, recid),
                count |-> RecCount(private.uses_cdl, blk_per_trk, recid, block.bp_block)]
    /\ UNCHANGED <<private, block, count, lock, dasd_page_cache, pool, bufmem, pool_err,
                   reqs, cqrs, pc, ib_addr>>

NextGeo == \E blk_per_trk \in 3..MaxBpt, recid \in 0..(2 * MaxBpt + 1) :
              Classify(blk_per_trk, recid)

SpecGeo == InitGeo /\ [][NextGeo]_vars

(* ------------------------------------------------------------------ *)
(* Views of a built request used by the properties                    *)
(* ------------------------------------------------------------------ *)
LiveStatus == {"FILLED", "IN_IO", "DONE", "ERROR", "TIMEDOUT"}
Live(r) == cqrs[r].status \in LiveStatus

RECURSIVE IdxSeq(_, _, _)
IdxSeq(cqr, i, cmds) ==
    IF i > Len(cqr.cpaddr) THEN <<>>
    ELSE (IF cqr.cpaddr[i].cmd_code \in cmds THEN <<i>> ELSE <<>>) \o IdxSeq(cqr, i + 1, cmds)

\* positions of the data-transfer descriptors and of the locate descriptors
DataSeq(r) == IdxSeq(cqrs[r], 1, DataCmds)
LocSeq(r) == IdxSeq(cqrs[r], 1, {"LOCATE_RECORD"})

RECURSIVE SumCount(_, _)
SumCount(cqr, idx) ==
    IF idx = <<>> THEN 0 ELSE cqr.cpaddr[Head(idx)].count + SumCount(cqr, Tail(idx))

RECURSIVE SumLen(_)
SumLen(segs) == IF segs = <<>> THEN 0 ELSE Head(segs).bv_len + SumLen(Tail(segs))

NBlocks(r) == SumBlocks(reqs[r].segs)
FirstRec(r) == reqs[r].sector \div (2 ^ block.s2b_shift)
LastRec(r) == FirstRec(r) + NBlocks(r) - 1
Boundary == 2 * BlkPerTrk

\* special records as the layout defines them, by record index
IsLabelRec(recid) == recid < 3 \/ (BlkPerTrk <= recid /\ recid < 2 * BlkPerTrk)
HasLabelRec(r) == private.uses_cdl /\ \E recid \in FirstRec(r)..LastRec(r) : IsLabelRec(recid)

\* the k-th data descriptor transfers the k-th block of the segments
InBlockOrder(r) ==
    \A k \in 1..Len(DataSeq(r)) :
        LET b == FlatBlocks(reqs[r].segs, 1)[k]
            t == CcwTarget(cqrs[r], DataSeq(r)[k])
        IN t = SegAddr(b.s, b.j) \/ \E c \in Buffers : t = BufAddr(c, b.j)

\* the payload of the locate descriptor at position i, and the record it starts at
LocData(r, i) == cqrs[r].lo[cqrs[r].cpaddr[i].cda.id]
LocRec(r, i) ==
    (LocData(r, i).cyl * private.trk_per_cyl + LocData(r, i).head) * BlkPerTrk
    + LocData(r, i).record - 1

\* the locate descriptor a data descriptor at position i runs under
Governs(r, i) == CHOOSE l \in {m \in 1..i : cqrs[r].cpaddr[m].cmd_code = "LOCATE_RECORD"} :
                    \A m \in (l + 1)..i : cqrs[r].cpaddr[m].cmd_code # "LOCATE_RECORD"
Governed(r, l) == {i \in DataIdx(cqrs[r]) : Governs(r, i) = l}

\* a data descriptor of a special-length record: KD command, or not block sized
SpecialCcw(r, i) ==
    \/ cqrs[r].cpaddr[i].cmd_code \in {"READ_KD_MT", "WRITE_KD_MT"}
    \/ cqrs[r].cpaddr[i].count # block.bp_block

(* ------------------------------------------------------------------ *)
(* C1                                                                 *)
(* ------------------------------------------------------------------ *)
\* C1 as stated: a built request has one data descriptor per block, in block
\* order, and the byte counts of the data descriptors add up to the segment lengths
C1_CountsSumToSegments ==
    \A r \in ReqIds : Live(r) =>
        /\ Len(DataSeq(r)) = NBlocks(r)
        /\ InBlockOrder(r)
        /\ SumCount(cqrs[r], DataSeq(r)) = SumLen(reqs[r].segs)

\* C1 amended: one data descriptor per block, in block order; the byte counts add
\* up to the segment lengths when the range holds no special record, and to less
\* when it holds one
C1_OnePerBlock ==
    \A r \in ReqIds : Live(r) =>
        /\ Len(DataSeq(r)) = NBlocks(r)
        /\ InBlockOrder(r)
        /\ ~HasLabelRec(r) => SumCount(cqrs[r], DataSeq(r)) = SumLen(reqs[r].segs)
        /\ HasLabelRec(r) => SumCount(cqrs[r], DataSeq(r)) < SumLen(reqs[r].segs)

\* a request of two segments, one through a copy buffer, on a compatible-layout
\* volume, for records 2 (special) and 3 (uniform)
C1_Witness ==
    /\ Live(1) /\ private.uses_cdl /\ FirstRec(1) = 2 /\ Len(reqs[1].segs) = 2
    /\ CcwTarget(cqrs[1], DataSeq(1)[1]).k = "buf"
    /\ CcwTarget(cqrs[1], DataSeq(1)[2]).k = "seg"
    /\ SumCount(cqrs[1], DataSeq(1)) = sizes_trk0[3] + block.bp_block

(* ------------------------------------------------------------------ *)
(* C2                                                                 *)
(* ------------------------------------------------------------------ *)
SpansBoundary(r) ==
    private.uses_cdl /\ FirstRec(r) < Boundary /\ Boundary <= LastRec(r)

\* C2: a compatible-layout request across record 2*records_per_track has at
\* least two locate descriptors; special records run under a locate descriptor
\* below the boundary; the locate descriptor at the boundary covers only
\* block-size records
C2_SplitAtBoundary ==
    \A r \in ReqIds : (Live(r) /\ SpansBoundary(r)) =>
        /\ Len(LocSeq(r)) >= 2
        /\ \A i \in DataIdx(cqrs[r]) :
              SpecialCcw(r, i) => LocRec(r, Governs(r, i)) < Boundary
        /\ \E l \in 1..Len(cqrs[r].cpaddr) :
              /\ cqrs[r].cpaddr[l].cmd_code = "LOCATE_RECORD"
              /\ LocRec(r, l) = Boundary
              /\ Governed(r, l) # {}
              /\ \A i \in Governed(r, l) : ~SpecialCcw(r, i)

\* a request for the last label record of track 1 and the first record of track 2
C2_Witness ==
    /\ Live(1) /\ SpansBoundary(1) /\ NBlocks(1) = 2
    /\ \E i \in DataIdx(cqrs[1]) : cqrs[1].cpaddr[i].count = LABEL_SIZE

(* ------------------------------------------------------------------ *)
(* C3                                                                 *)
(* ------------------------------------------------------------------ *)
BelowBoundary(r) == private.uses_cdl /\ FirstRec(r) < Boundary

\* C3 as stated: one locate descriptor per sub-range, so one or two per request
C3_OneLocatePerSubrange ==
    \A r \in ReqIds : (Live(r) /\ BelowBoundary(r)) =>
        Len(LocSeq(r)) = IF LastRec(r) >= Boundary THEN 2 ELSE 1

\* C3 amended: one locate descriptor of record count 1 for every record below the
\* boundary, one for the whole sub-range from the boundary on, and no locate
\* descriptor over both special and uniform records
C3_LocatePerRecordBelow ==
    \A r \in ReqIds : (Live(r) /\ BelowBoundary(r)) =>
        LET below == {recid \in FirstRec(r)..LastRec(r) : recid < Boundary}
        IN /\ Len(LocSeq(r)) = Cardinality(below) + IF LastRec(r) >= Boundary THEN 1 ELSE 0
           /\ \A k \in 1..Len(LocSeq(r)) :
                LET l == LocSeq(r)[k]
                IN /\ LocRec(r, l) = FirstRec(r) + k - 1
                   /\ LocRec(r, l) < Boundary =>
                         (LocData(r, l).count = 1 /\ Cardinality(Governed(r, l)) = 1)
                   /\ LocRec(r, l) = Boundary =>
                         LocData(r, l).count = LastRec(r) - Boundary + 1
                   /\ \A i, j \in Governed(r, l) : SpecialCcw(r, i) = SpecialCcw(r, j)

\* records 2 and 3 of a compatible-layout volume: two locate descriptors for one
\* sub-range, the first over a special record and the second over a uniform one
C3_Witness ==
    /\ Live(1) /\ private.uses_cdl /\ FirstRec(1) = 2 /\ NBlocks(1) = 2
    /\ Len(LocSeq(1)) = 2
    /\ SpecialCcw(1, DataSeq(1)[1]) /\ ~SpecialCcw(1, DataSeq(1)[2])

(* ------------------------------------------------------------------ *)
(* C8                                                                 *)
(* ------------------------------------------------------------------ *)
\* the address the descriptor of the first block of segment s transfers to or from
SegTarget(r, s) ==
    CcwTarget(cqrs[r], DataSeq(r)[CHOOSE k \in 1..NBlocks(r) :
                                     FlatBlocks(reqs[r].segs, 1)[k] = [s |-> s, j |-> 1]])
\* the copy buffers a built request holds
BufsOf(r) == {t.id : t \in {u \in Targets(cqrs[r]) : u.k = "buf"}}
Freed(p) == pc[p].at = "idle" /\ pc[p].ret \in {"0", "1"}

C8_Pool ==
    /\ ~pool_err
    /\ pool = Buffers \ UNION {BufsOf(r) : r \in {q \in ReqIds : Live(q)}}
    /\ \A r, q \in ReqIds : (Live(r) /\ Live(q) /\ r # q) => BufsOf(r) \cap BufsOf(q) = {}

C8_AtFree ==
    \A r \in ReqIds : (Live(r) /\ cqrs'[r].status \notin LiveStatus) =>
        /\ cqrs'[r] = FreedCqr
        /\ BufsOf(r) \cap pool = {}
        /\ pool' = pool \cup BufsOf(r)

\* C8: the buffers out of the pool are those of the requests not yet freed, no
\* release is of anything but a buffer that is out of the pool, and free, whatever
\* the final status, returns the request's buffers and releases its descriptor
\* memory
C8_BuffersReturnedOnce == []C8_Pool /\ [][C8_AtFree]_vars

\* a failed read of two segments, the first through a copy buffer and the second
\* in place, has been freed
C8_Witness ==
    /\ Freed("base1") /\ pc["base1"].ret = "0" /\ dasd_page_cache
    /\ cqrs[1] = FreedCqr
    /\ reqs[1].dir = "READ" /\ Len(reqs[1].segs) = 2
    /\ reqs[1].segs[1].mem[1] = Junk /\ reqs[1].segs[2].mem[1] = User
    /\ pool = Buffers

(* ------------------------------------------------------------------ *)
(* C9                                                                 *)
(* ------------------------------------------------------------------ *)
C9_WhileBuilt ==
    \A r \in ReqIds : Live(r) =>
        \A s \in 1..Len(reqs[r].segs) : SegTarget(r, s).k = "buf" =>
            /\ \A j \in 1..Len(reqs[r].segs[s].mem) : reqs[r].segs[s].mem[j] = User
            /\ reqs[r].dir = "WRITE" => bufmem[SegTarget(r, s).id] = reqs[r].segs[s].mem

C9_AtFree ==
    \A r \in ReqIds : (Live(r) /\ cqrs'[r] = FreedCqr) =>
        \A s \in 1..Len(reqs[r].segs) : SegTarget(r, s).k = "buf" =>
            LET b == SegTarget(r, s).id
            IN /\ reqs[r].dir = "READ" => reqs'[r].segs[s].mem = bufmem[b]
               /\ reqs[r].dir = "WRITE" => reqs'[r].segs[s] = reqs[r].segs[s]
               /\ b \notin pool /\ b \in pool'

\* C9: while a request is built, the caller's memory of a substituted segment is
\* as the caller left it and, for a write, the buffer holds the same data; free
\* copies the whole buffer to the caller's memory for a read, copies nothing for a
\* write, and returns the buffer
C9_CopyBufferSemantics == []C9_WhileBuilt /\ [][C9_AtFree]_vars

\* a read of one segment of two blocks through a copy buffer ended well and was
\* freed: the caller's memory holds what the device stored in the buffer
C9_Witness ==
    /\ Freed("base1") /\ pc["base1"].ret = "1" /\ dasd_page_cache
    /\ reqs[1].dir = "READ" /\ Len(reqs[1].segs) = 1
    /\ Len(reqs[1].segs[1].mem) = 2
    /\ \A j \in 1..2 : reqs[1].segs[1].mem[j].lo = "disk" /\ reqs[1].segs[1].mem[j].hi # "user"
    /\ pool = Buffers

(* ------------------------------------------------------------------ *)
(* C10                                                                *)
(* ------------------------------------------------------------------ *)
\* with the pool configured, a segment without a buffer is one the pool refused
InPlace(r, s) == dasd_page_cache /\ SegTarget(r, s).k # "buf"

C10_WhileBuilt ==
    \A r \in ReqIds : Live(r) =>
        \A k \in 1..NBlocks(r) :
            LET b == FlatBlocks(reqs[r].segs, 1)[k]
            IN InPlace(r, b.s) => CcwTarget(cqrs[r], DataSeq(r)[k]) = SegAddr(b.s, b.j)

C10_AtFree ==
    \A r \in ReqIds : (Live(r) /\ cqrs'[r] = FreedCqr) =>
        /\ \A s \in 1..Len(reqs[r].segs) : InPlace(r, s) => reqs'[r].segs[s] = reqs[r].segs[s]
        /\ pool' = pool \cup BufsOf(r)
        /\ pool_err' = pool_err

\* C10: a segment the pool gave no buffer for is built over the caller's memory,
\* block by block, and free neither copies to it nor releases anything for it
C10_PoolMissInPlace == []C10_WhileBuilt /\ [][C10_AtFree]_vars

\* a read of two segments, the first in place because the pool gave no buffer and
\* the second through a buffer, ended well and was freed
C10_Witness ==
    /\ Freed("base1") /\ pc["base1"].ret = "1" /\ dasd_page_cache
    /\ reqs[1].dir = "READ" /\ Len(reqs[1].segs) = 2
    /\ reqs[1].segs[1].mem[1] = [lo |-> "disk", hi |-> "user"]
    /\ reqs[1].segs[2].mem[1].hi # "user"
    /\ pool = Buffers /\ ~pool_err

(* ------------------------------------------------------------------ *)
(* C4                                                                 *)
(* ------------------------------------------------------------------ *)
\* C4: on a compatible-layout volume records 0, 1, 2 are special with lengths 28,
\* 148, 84, records records_per_track .. 2*records_per_track-1 are special with
\* length 140, every other record is uniform with the block size; on any other
\* volume every record is uniform
C4_Classifier ==
    calc.fn = "cdl" =>
        LET n == calc.blk_per_trk
            i == calc.recid
            uniform == ~calc.special /\ calc.count = block.bp_block
        IN IF ~private.uses_cdl THEN uniform
           ELSE IF i = 0 THEN calc.special /\ calc.count = 28
           ELSE IF i = 1 THEN calc.special /\ calc.count = 148
           ELSE IF i = 2 THEN calc.special /\ calc.count = 84
           ELSE IF n <= i /\ i <= 2 * n - 1 THEN calc.special /\ calc.count = 140
           ELSE uniform

\* record 3 of a compatible-layout volume with more than three records on a
\* track, classified as uniform
C4_Witness ==
    /\ calc.fn = "cdl" /\ private.uses_cdl /\ calc.recid = 3 /\ calc.blk_per_trk > 3
    /\ ~calc.special /\ calc.count = block.bp_block

(* ------------------------------------------------------------------ *)
(* C5                                                                 *)
(* ------------------------------------------------------------------ *)
\* C5: the in-flight counter of a device never exceeds 4
C5_CounterWithinCap == \A d \in Devices : count[d] <= 4

(* ------------------------------------------------------------------ *)
(* C6                                                                 *)
(* ------------------------------------------------------------------ *)
\* a step in which p enters build_alias_cp
Enters(p) ==
    /\ pc[p].at = "idle" /\ pc'[p] # pc[p]
    /\ pc'[p].at \in {"idle", "lock"}

\* C6: entering the build with 4 or more requests in flight on the start device
\* returns EBUSY and leaves the counters, the requests and the pool as they were
C6_BusyChangesNothing ==
    [][\A p \in Bases :
          (Enters(p) /\ count[pc'[p].sd] >= 4) =>
              /\ pc'[p].at = "idle" /\ pc'[p].ret = "EBUSY" /\ pc'[p].r = 0
              /\ count' = count /\ cqrs' = cqrs /\ reqs' = reqs
              /\ pool' = pool /\ bufmem' = bufmem /\ lock' = lock]_vars

\* base1 was refused on the alias device, which has four requests in flight
C6_Witness ==
    /\ pc["base1"].at = "idle" /\ pc["base1"].ret = "EBUSY" /\ pc["base1"].sd = "alias"
    /\ count["alias"] = 4
    /\ Cardinality({r \in ReqIds : Live(r) /\ cqrs[r].startdev = "alias"}) = 4

(* ------------------------------------------------------------------ *)
(* C7                                                                 *)
(* ------------------------------------------------------------------ *)
\* C7: the free path entered for a request that is already freed changes neither
\* the counters, nor the pool, nor the caller's memory
C7_SecondFreeNoOp ==
    [][\A p \in Bases :
          (pc'[p].at = "free_cp_again" \/ pc[p].at = "free_cp_again") =>
              /\ count' = count /\ pool' = pool /\ bufmem' = bufmem
              /\ reqs' = reqs /\ pool_err' = pool_err]_vars

(* ------------------------------------------------------------------ *)
(* Specification: dasd_eckd_build_cp, define_extent and prefix as     *)
(* functions of their arguments                                       *)
(* ------------------------------------------------------------------ *)
MaxNrCyl == 5

CacheModes == {"DASD_NORMAL_CACHE", "DASD_BYPASS_CACHE", "DASD_SEQ_PRESTAGE",
               "DASD_SEQ_ACCESS"}

\* a 3390 volume in either layout, with or without prefix and XRC, in every
\* cache mode, with and without cylinders to prestage
InitBuild ==
    /\ private \in {[Private(13200, cdl, pfx, xrc) EXCEPT
                        !.attrib = [operation |-> op, nr_cyl |-> n]] :
                      cdl \in BOOLEAN, pfx \in BOOLEAN, xrc \in BOOLEAN,
                      op \in CacheModes, n \in {0, MaxNrCyl}}
    /\ block \in {Block(bs) : bs \in BlockSizes}
    /\ dasd_page_cache = FALSE
    /\ InitRest

\* requests at the start of the volume and behind the special area
BuildRequests ==
    {Request(dir, first_rec, segs, bad) :
        dir \in Dirs, first_rec \in {0, 2 * BlkPerTrk}, segs \in SegLists,
        bad \in {"none", "len", "long", "range"}}

\* one call of dasd_eckd_build_cp on the base device, whatever the clock says
CalcBuild(req, clock, alloc_ok) ==
    /\ calc.fn = "none"
    /\ calc' = [fn |-> "build_cp", req |-> req, clock |-> clock, alloc_ok |-> alloc_ok,
                rc |-> build_cp("base1", "base1", req, [s \in 1..Len(req.segs) |-> 0],
                                clock, alloc_ok).rc]
    /\ UNCHANGED <<private, block, count, lock, dasd_page_cache, pool, bufmem, pool_err,
                   reqs, cqrs, pc, ib_addr>>

\* the first and last track of a cylinder
ExtentTracks ==
    {cyl * private.trk_per_cyl + head :
        cyl \in 0..(private.no_cyl - 1), head \in {0, private.trk_per_cyl - 1}}

\* one command of each class of define_extent
ExtentCmds == {"READ_MT", "READ_COUNT", "WRITE_MT", "WRITE_CKD", "ERASE"}

\* one call of define_extent, or of prefix on a volume that uses it, for the
\* tracks trk .. totrk
CalcExtent(trk, totrk, cmd, clock) ==
    /\ calc.fn = "none"
    /\ trk <= totrk
    /\ LET e == IF private.prefix
                THEN prefix(trk, totrk, cmd, "base1", "base1", clock)
                ELSE define_extent(trk, totrk, cmd, "base1", clock)
       IN calc' = [fn |-> "extent", trk |-> trk, totrk |-> totrk, cmd |-> cmd,
                   clock |-> clock, rc |-> e.rc, data |-> e.data]
    /\ UNCHANGED <<private, block, count, lock, dasd_page_cache, pool, bufmem, pool_err,
                   reqs, cqrs, pc, ib_addr>>

NextBuild ==
    \/ /\ calc.fn = "none"
       /\ \E req \in BuildRequests, clock \in ClockRcs, alloc_ok \in BOOLEAN :
             CalcBuild(req, clock, alloc_ok)
    \/ /\ calc.fn = "none"
       /\ \E trk \in ExtentTracks, totrk \in ExtentTracks, cmd \in ExtentCmds :
             CalcExtent(trk, totrk, cmd, "OK")

SpecBuild == InitBuild /\ [][NextBuild]_vars

(* ------------------------------------------------------------------ *)
(* C12, C13, C20                                                      *)
(* ------------------------------------------------------------------ *)
\* the request of the call, read by its sectors and bytes
CalcFirstRec == calc.req.sector \div (block.bp_block \div 512)
CalcLastRec == (calc.req.sector + calc.req.nr_sectors - 1) \div (block.bp_block \div 512)

RECURSIVE TotalLen(_)
TotalLen(segs) == IF segs = <<>> THEN 0 ELSE Head(segs).bv_len + TotalLen(Tail(segs))

RECURSIVE TotalBlocks(_)
TotalBlocks(segs) ==
    IF segs = <<>> THEN 0
    ELSE (Head(segs).bv_len \div block.bp_block) + TotalBlocks(Tail(segs))

BadLength == \E s \in 1..Len(calc.req.segs) : calc.req.segs[s].bv_len % block.bp_block # 0
BadRange == TotalBlocks(calc.req.segs) # CalcLastRec - CalcFirstRec + 1

\* C12: on a controller with XRC a write is built when the clock is switched off
\* or not permitted and is refused with -EAGAIN when the clock is not in sync;
\* a read is built whatever the clock says
C12_ClockAndXRC ==
    (calc.fn = "build_cp" /\ ~BadLength /\ ~BadRange /\ calc.alloc_ok) =>
        /\ (calc.req.dir = "WRITE" /\ private.XRC_supported
              /\ calc.clock \in {"ENOSYS", "EACCES"}) => calc.rc = "OK"
        /\ (calc.req.dir = "WRITE" /\ private.XRC_supported /\ calc.clock = "EAGAIN")
              => calc.rc = "EAGAIN"
        /\ calc.req.dir = "READ" => calc.rc = "OK"

\* a write with XRC and the clock switched off was built
C12_Witness ==
    /\ calc.fn = "build_cp" /\ calc.req.dir = "WRITE" /\ private.XRC_supported
    /\ calc.clock = "ENOSYS" /\ calc.rc = "OK"

\* a write with XRC and the clock out of sync was refused
C12_WitnessNotSynced ==
    /\ calc.fn = "build_cp" /\ calc.req.dir = "WRITE" /\ private.XRC_supported
    /\ calc.clock = "EAGAIN" /\ calc.rc = "EAGAIN"

\* C13: build_cp returns -EINVAL, whether or not memory is to be had, when a
\* segment length is no multiple of the block size or the blocks of the segments
\* do not add up to last_rec - first_rec + 1, and for no other request
C13_Validation ==
    calc.fn = "build_cp" => ((calc.rc = "EINVAL") <=> (BadLength \/ BadRange))

\* a request whose sector range is longer than its segments was refused although
\* the allocation would have failed too
C13_Witness ==
    /\ calc.fn = "build_cp" /\ ~BadLength /\ BadRange /\ ~calc.alloc_ok
    /\ Len(calc.req.segs) = 2 /\ calc.rc = "EINVAL"

\* a request with one segment a sector too long was refused although its blocks
\* add up
C13_WitnessLength ==
    calc.fn = "build_cp" /\ BadLength /\ ~BadRange /\ calc.rc = "EINVAL"

ExtMin(a, b) == IF a < b THEN a ELSE b

\* C20: the end cylinder of the extent is the cylinder of the last track, except
\* in the sequential cache modes, where it is
\* min(end cylinder + nr_cyl, no_cyl - 1); the extent begins no later than it
\* ends and ends within the volume
C20_ExtentEnd ==
    calc.fn = "extent" =>
        LET tpc == private.trk_per_cyl
            d == calc.data
            endcyl == calc.totrk \div tpc
            seq == d.operation \in {"DASD_SEQ_PRESTAGE", "DASD_SEQ_ACCESS"}
        IN /\ d.end_ext.cyl # endcyl =>
                private.attrib.operation \in {"DASD_SEQ_PRESTAGE", "DASD_SEQ_ACCESS"}
           /\ seq => d.end_ext.cyl = ExtMin(endcyl + private.attrib.nr_cyl,
                                            private.no_cyl - 1)
           /\ ~seq => d.end_ext.cyl = endcyl
           /\ d.end_ext.head = calc.totrk % tpc
           /\ d.beg_ext.cyl * tpc + d.beg_ext.head = calc.trk
           /\ d.beg_ext.cyl * tpc + d.beg_ext.head
                 <= d.end_ext.cyl * tpc + d.end_ext.head
           /\ d.end_ext.cyl <= private.no_cyl - 1

\* an extent that ends on the last cylinder, in a sequential mode with cylinders
\* to prestage, stays on the last cylinder
C20_Witness ==
    /\ calc.fn = "extent" /\ calc.data.operation = "DASD_SEQ_PRESTAGE"
    /\ private.attrib.nr_cyl = MaxNrCyl
    /\ calc.totrk \div private.trk_per_cyl = private.no_cyl - 1
    /\ calc.data.end_ext.cyl = private.no_cyl - 1

\* an extent in the middle of the volume is extended by nr_cyl cylinders
C20_WitnessExtended ==
    /\ calc.fn = "extent" /\ calc.data.operation = "DASD_SEQ_ACCESS"
    /\ private.attrib.nr_cyl = MaxNrCyl
    /\ calc.data.end_ext.cyl = calc.totrk \div private.trk_per_cyl + MaxNrCyl

(* ------------------------------------------------------------------ *)
(* Specification: one volume whose requests may run on the alias      *)
(* device and may be terminated                                       *)
(* ------------------------------------------------------------------ *)
\* dasd_eckd_reset_ccw_to_base_io
reset_ccw_to_base_io(cqr) ==
    IF cqr.cpaddr[1].cmd_code = "PFX"
    THEN [cqr EXCEPT !.data.validity = @ \ {"verify_base", "hyper_pav"}]
    ELSE cqr

\* mutant: the request stays on the device it was started on
handle_terminated_request_keepdev(cqr) == [cqr EXCEPT !.status = "FILLED"]

\* dasd_eckd_handle_terminated_request
handle_terminated_request(cqr) ==
    LET c == [cqr EXCEPT !.status = "FILLED"]
    IN IF c.block # "none" /\ c.startdev # c.block
       THEN [reset_ccw_to_base_io(c) EXCEPT !.startdev = c.block]
       ELSE c

\* a request in progress is terminated
ExecTerminate(r) ==
    /\ cqrs[r].status = "IN_IO"
    /\ cqrs' = [cqrs EXCEPT ![r].status = "TERMINATED"]
    /\ UNCHANGED <<private, block, count, lock, dasd_page_cache, pool, bufmem, pool_err,
                   reqs, pc, calc, ib_addr>>

\* the terminated request is given to the discipline
HandleTerminated(r) ==
    /\ cqrs[r].status = "TERMINATED"
    /\ cqrs' = [cqrs EXCEPT ![r] = handle_terminated_request(@)]
    /\ UNCHANGED <<private, block, count, lock, dasd_page_cache, pool, bufmem, pool_err,
                   reqs, pc, calc, ib_addr>>

TermRequests == {Request(dir, 2, <<Seg(1, FALSE)>>, "none") : dir \in Dirs}

NextTerm ==
    \/ AliasCheck("base1", {1}, {"none", "alias"})
    \/ AliasLock("base1")
    \/ AliasBuildCp("base1", TermRequests)
    \/ FreeAliasCp("base1", 1)
    \/ FreeCp("base1")
    \/ ExecStart(1)
    \/ ExecEnd(1)
    \/ ExecTerminate(1)
    \/ HandleTerminated(1)

SpecTerm == Init /\ [][NextTerm]_vars

(* ------------------------------------------------------------------ *)
(* C14                                                                *)
(* ------------------------------------------------------------------ *)
Rank(status) ==
    CASE status = "FILLED" -> 1
      [] status = "IN_IO" -> 2
      [] status \in {"DONE", "ERROR", "TIMEDOUT", "TERMINATED"} -> 3
      [] status = "FREED" -> 4
      [] OTHER -> 0

Existing(r) == Rank(cqrs[r].status) \in 1..3

\* C14 as stated: the status of a request never moves back
C14_ForwardOnly ==
    [][\A r \in ReqIds : Existing(r) => Rank(cqrs'[r].status) >= Rank(cqrs[r].status)]_vars

\* the one step back: the terminated request itself is Filled again, with the
\* channel program it had, and starts on the base device
Requeued(r) ==
    /\ cqrs[r].status = "TERMINATED" /\ cqrs'[r].status = "FILLED"
    /\ cqrs'[r].startdev = cqrs[r].block
    /\ "verify_base" \notin cqrs'[r].data.validity
    /\ cqrs'[r].cpaddr = cqrs[r].cpaddr /\ cqrs'[r].memdev = cqrs[r].memdev
    /\ reqs'[r] = reqs[r]

\* C14, amended: the status of a request moves forward, except that the handling
\* of a terminated request makes that same request Filled again, on the base
\* device
C14_ForwardOrRequeued ==
    [][\A r \in ReqIds : Existing(r) =>
          \/ Rank(cqrs'[r].status) >= Rank(cqrs[r].status)
          \/ Requeued(r)]_vars

\* a request built for the alias device with the prefix command was terminated
\* and is Filled again, now for the base device
C14_Witness ==
    /\ cqrs[1].status = "FILLED"
    /\ cqrs[1].memdev = "alias" /\ cqrs[1].startdev = "base1"
    /\ cqrs[1].cpaddr[1].cmd_code = "PFX"

(* ------------------------------------------------------------------ *)
(* Volume analysis                                                    *)
(* ------------------------------------------------------------------ *)
\* private->init_cqr_status = -1: no status of an analysis request is stored
NoStatus == "-1"

\* the statuses a request ends with
FinalStatus == {"DONE", "ERROR", "TIMEDOUT"}

Count(kl, dl) == [kl |-> kl, dl |-> dl]

\* block sizes 512, 1024, 2048, 4096 pass
dasd_check_blocksize(bsize) ==
    IF bsize \in {512, 1024, 2048, 4096} THEN "OK" ELSE "EMEDIUMTYPE"

\* mutant: do_analysis takes every stored value for a status
StatusUnset_never(status) == FALSE

\* "private->init_cqr_status < 0"
StatusUnset(status) == status = NoStatus

\* mutant: the count fields are examined whatever the request ended with
ProbeDone_any(status) == TRUE

\* "status != DASD_CQR_DONE", negated
ProbeDone(status) == status = "DONE"

\* mutant: the data length of the record is not compared
CdlHeader_key_only(ca, i) == ca[i + 1].kl = 4

\* record i of track 0 has the key and data length of the compatible disk layout
CdlHeader(ca, i) ==
    ca[i + 1].kl = 4 /\ ca[i + 1].dl = dasd_eckd_cdl_reclen(i) - 4

\* "for (sb = 512; sb < block->bp_block; sb = sb << 1) block->s2b_shift++"
RECURSIVE S2bShift(_, _)
S2bShift(sb, bp_block) == IF sb < bp_block THEN 1 + S2bShift(2 * sb, bp_block) ELSE 0

\* dasd_eckd_analysis_ccw: define extent for tracks 0 to 2, locate record and four
\* read count on track 0, locate record and one read count on track 2
analysis_ccw(device) ==
    LET rc(i) == [cmd_code |-> "READ_COUNT", count |-> 8, sz |-> "",
                  cda |-> [k |-> "count_area", id |-> i, j |-> 0], flags |-> {}]
        de == define_extent(0, 2, "READ_COUNT", device, "OK")
        st0 == [ccw |-> <<de.ccw>>, lo |-> <<>>]
        st1 == EmitLocate(st0, locate_record(0, 0, 4, "READ_COUNT", 0))
        st2 == [st1 EXCEPT !.ccw = Append(SetCC(Append(SetCC(Append(SetCC(Append(SetCC(
                                      @), rc(0))), rc(1))), rc(2))), rc(3))]
        st3 == EmitLocate(st2, locate_record(2, 0, 1, "READ_COUNT", 0))
        st4 == [st3 EXCEPT !.ccw = Append(SetCC(@), rc(4))]
    IN [status |-> "FILLED", startdev |-> device, memdev |-> device, block |-> "none",
        cplength |-> 8, lo_size |-> 2, cpaddr |-> st4.ccw, data |-> de.data,
        lo |-> st4.lo, retries |-> 0]

\* dasd_eckd_end_analysis for the stored status: return code, private and block
end_analysis(status) ==
    LET ca == private.count_area
        priv0 == [private EXCEPT !.init_cqr_status = NoStatus]
        cdl == \A i \in 0..2 : CdlHeader(ca, i)
        uniform == \A i \in 1..5 : ca[i].kl = 0 /\ ca[i].dl = ca[1].dl
        \* count_area: the fifth count field, the first one, or NULL
        chosen == IF cdl THEN 5 ELSE IF uniform THEN 1 ELSE 0
        bp_block == IF chosen # 0 /\ ca[chosen].kl = 0
                       /\ dasd_check_blocksize(ca[chosen].dl) = "OK"
                    THEN ca[chosen].dl ELSE block.bp_block
        priv1 == [priv0 EXCEPT !.uses_cdl = cdl]
    IN IF ~ProbeDone(status)
       THEN [rc |-> "EMEDIUMTYPE", private |-> priv0, block |-> block]
       ELSE IF bp_block = 0
       THEN [rc |-> "EMEDIUMTYPE", private |-> priv1,
             block |-> [block EXCEPT !.bp_block = bp_block]]
       ELSE [rc |-> "OK", private |-> priv1,
             block |-> [bp_block |-> bp_block, s2b_shift |-> S2bShift(512, bp_block),
                        blocks |-> private.no_cyl * private.trk_per_cyl
                                   * recs_per_track(private.dev_type, 0, bp_block)]]

\* what the five read count commands may find on a volume: one record length
\* everywhere, the compatible disk layout, the compatible disk layout with one
\* wrong record on track 0, and records that differ in length or have a key
ProbeLens == {0, 512, 1000, 2048, 4096, 8192}

CdlTrack0 == [i \in 1..3 |-> Count(4, dasd_eckd_cdl_reclen(i - 1) - 4)]

ProbeResults ==
    {[i \in 1..5 |-> Count(0, l)] : l \in ProbeLens}
    \cup {CdlTrack0 \o <<d, e>> :
             d \in {Count(0, 2048), Count(44, 96)},
             e \in {Count(0, l) : l \in ProbeLens} \cup {Count(4, 2048)}}
    \cup UNION {{[CdlTrack0 \o <<Count(0, 2048), Count(0, 2048)>> EXCEPT ![i] = h] :
                    h \in {Count(4, 2048), Count(0, CdlTrack0[i].dl)}} : i \in 1..3}
    \cup {[[j \in 1..5 |-> Count(0, 2048)] EXCEPT ![i] = h] :
             i \in 1..5, h \in {Count(0, 512), Count(4, 2048)}}

\* a volume that has not been analysed
InitAna ==
    /\ private \in {Private(dt, FALSE, FALSE, FALSE)
                      @@ [init_cqr_status |-> NoStatus,
                          count_area |-> [i \in 1..5 |-> Count(0, 0)]] :
                    dt \in {13200, 13184, 13173}}
    /\ block = [bp_block |-> 0, s2b_shift |-> 0, blocks |-> 0]
    /\ dasd_page_cache = FALSE
    /\ InitRest

\* the device is brought up: its state machine is scheduled and will call
\* do_analysis
Kick(p) ==
    /\ pc[p].at = "idle"
    /\ pc' = [pc EXCEPT ![p] = [Idle EXCEPT !.at = "kicked"]]
    /\ UNCHANGED <<private, block, count, lock, dasd_page_cache, pool, bufmem, pool_err,
                   reqs, cqrs, calc, ib_addr>>

\* dasd_eckd_do_analysis with no status stored: dasd_eckd_start_analysis
StartAnalysis(p, r) ==
    /\ pc[p].at = "kicked"
    /\ StatusUnset(private.init_cqr_status)
    /\ \E alloc_ok \in BOOLEAN :
         IF alloc_ok /\ r \in FreeSlots({r})
         THEN /\ cqrs' = [cqrs EXCEPT ![r] = analysis_ccw(p) @@
                             [callback |-> "analysis_callback", expires |-> 5]]
              /\ pc' = [pc EXCEPT ![p] = [Idle EXCEPT !.at = "wait", !.ret = "EAGAIN"]]
         ELSE /\ pc' = [pc EXCEPT ![p] = [Idle EXCEPT !.ret = "ENOMEM"]]
              /\ UNCHANGED cqrs
    /\ UNCHANGED <<private, block, count, lock, dasd_page_cache, pool, bufmem, pool_err,
                   reqs, calc, ib_addr>>

\* dasd_eckd_do_analysis with a status stored: dasd_eckd_end_analysis
EndAnalysis(p) ==
    /\ pc[p].at = "kicked"
    /\ ~StatusUnset(private.init_cqr_status)
    /\ LET res == end_analysis(private.init_cqr_status)
       IN /\ private' = res.private
          /\ block' = res.block
          /\ pc' = [pc EXCEPT ![p] = [Idle EXCEPT !.ret = res.rc]]
          /\ calc' = [fn |-> "end_analysis", status |-> private.init_cqr_status,
                      rc |-> res.rc]
    /\ UNCHANGED <<count, lock, dasd_page_cache, pool, bufmem, pool_err, reqs, cqrs, ib_addr>>

\* the channel program of the analysis request ends; the read count commands
\* that ran have stored count fields in private->count_area
ProbeEnd(r) ==
    /\ cqrs[r].status = "IN_IO"
    /\ \E outcome \in FinalStatus :
         /\ cqrs' = [cqrs EXCEPT ![r].status = outcome]
         /\ \E ca \in ProbeResults \cup {private.count_area} :
              /\ outcome = "DONE" => ca \in ProbeResults
              /\ private' = [private EXCEPT !.count_area = ca]
    /\ UNCHANGED <<block, count, lock, dasd_page_cache, pool, bufmem, pool_err, reqs, pc,
                   calc, ib_addr>>

\* dasd_eckd_analysis_callback, called for the request that has ended
AnalysisCallback(p, r) ==
    /\ cqrs[r].status \in FinalStatus
    /\ cqrs[r].startdev = p
    /\ private' = [private EXCEPT !.init_cqr_status = cqrs[r].status]
    /\ cqrs' = [cqrs EXCEPT ![r] = FreedCqr]
    /\ pc' = [pc EXCEPT ![p] = [Idle EXCEPT !.at = "kicked"]]
    /\ UNCHANGED <<block, count, lock, dasd_page_cache, pool, bufmem, pool_err, reqs,
                   calc, ib_addr>>

NextAna ==
    \/ Kick("base1")
    \/ StartAnalysis("base1", 1)
    \/ EndAnalysis("base1")
    \/ ExecStart(1)
    \/ ProbeEnd(1)
    \/ AnalysisCallback("base1", 1)

SpecAna == InitAna /\ [][NextAna]_vars

(* ------------------------------------------------------------------ *)
(* C15 .. C19                                                         *)
(* ------------------------------------------------------------------ *)
Probe == cqrs[1]
Caller == pc["base1"]
ProbeExists == Probe.status \in {"FILLED", "IN_IO"} \cup FinalStatus

\* do_analysis returns from end_analysis in this step
Evaluates == Caller.at = "kicked" /\ pc'["base1"].ret \in {"OK", "EMEDIUMTYPE"}

C15_Phases ==
    \* a stored status belongs to a request that has ended and is freed, and the
    \* device is kicked
    /\ private.init_cqr_status # NoStatus =>
          /\ private.init_cqr_status \in FinalStatus
          /\ Probe.status = "FREED" /\ Caller.at = "kicked"
    \* while the request exists no status is stored and do_analysis has returned
    /\ ProbeExists =>
          /\ private.init_cqr_status = NoStatus
          /\ Caller.at = "wait" /\ Caller.ret = "EAGAIN"
          /\ Probe.callback = "analysis_callback"

C15_Steps ==
    \* phase 1: with no status stored, do_analysis queues one request and returns
    \* -EAGAIN, or returns the error of the allocation
    /\ (Caller.at = "kicked" /\ private.init_cqr_status = NoStatus /\ pc' # pc) =>
          /\ pc'["base1"].ret \in {"EAGAIN", "ENOMEM"}
          /\ pc'["base1"].ret = "EAGAIN" <=>
                (~ProbeExists /\ cqrs'[1].status = "FILLED"
                   /\ cqrs'[1].callback = "analysis_callback")
          /\ pc'["base1"].ret = "ENOMEM" => cqrs' = cqrs
          /\ private' = private /\ block' = block
    \* the callback stores the status the request ended with, frees the request
    \* and kicks the device
    /\ (Probe.status \in FinalStatus /\ cqrs'[1] # cqrs[1]) =>
          /\ private.init_cqr_status = NoStatus
          /\ private'.init_cqr_status = Probe.status
          /\ cqrs'[1].status = "FREED" /\ pc'["base1"].at = "kicked"
    \* phase 2 evaluates the status of a request that has ended, and takes it
    /\ Evaluates =>
          /\ private.init_cqr_status \in FinalStatus /\ Probe.status = "FREED"
          /\ private'.init_cqr_status = NoStatus
          /\ calc'.status = private.init_cqr_status
          /\ cqrs' = cqrs

C16_NotDone ==
    [][(Caller.at = "kicked" /\ private.init_cqr_status \in FinalStatus \ {"DONE"}
          /\ pc' # pc) =>
          /\ pc'["base1"].ret = "EMEDIUMTYPE" /\ pc'["base1"].at = "idle"
          /\ private' = [private EXCEPT !.init_cqr_status = NoStatus]
          /\ block' = block
          /\ cqrs' = cqrs]_vars

\* a volume analysed before as compatible disk layout with 2048 byte blocks; the
\* request of the next analysis ended in error with count fields of 512 byte
\* records stored, and phase 2 has returned
C16_Witness ==
    /\ calc.fn = "end_analysis" /\ calc.status = "ERROR" /\ calc.rc = "EMEDIUMTYPE"
    /\ Caller.at = "idle" /\ Caller.ret = "EMEDIUMTYPE"
    /\ private.uses_cdl /\ block.bp_block = 2048
    /\ private.count_area = [i \in 1..5 |-> Count(0, 512)]
    /\ Probe.status = "FREED"

\* phase 2 has evaluated a request that ended DONE; the count fields are those
\* it has seen
AfterDone == calc.fn = "end_analysis" /\ calc.status = "DONE" /\ Caller.at = "idle"

CdlMatch ==
    /\ private.count_area[1] = Count(4, 24)
    /\ private.count_area[2] = Count(4, 144)
    /\ private.count_area[3] = Count(4, 80)

ValidBs(n) == \E k \in 0..3 : n = 512 * 2 ^ k

UniformLen ==
    \A i \in 1..5 : private.count_area[i].kl = 0
                    /\ private.count_area[i].dl = private.count_area[1].dl

\* C17: after DONE, uses_cdl is set exactly when the first three count fields of
\* track 0 are (4, 24), (4, 144), (4, 80); if then the first record of track 2
\* has no key and a valid length, end_analysis succeeds with that length as the
\* block size
C17_Cdl ==
    AfterDone =>
        /\ private.uses_cdl <=> CdlMatch
        /\ (CdlMatch /\ private.count_area[5].kl = 0
              /\ ValidBs(private.count_area[5].dl)) =>
              /\ calc.rc = "OK"
              /\ block.bp_block = private.count_area[5].dl

C17_Witness ==
    /\ AfterDone /\ CdlMatch /\ private.count_area[5] = Count(0, 4096)
    /\ private.uses_cdl /\ calc.rc = "OK" /\ block.bp_block = 4096

\* C18: after DONE without the compatible disk layout on track 0, end_analysis
\* succeeds only if all five count fields have no key and one valid length
C18_NativeOnlyIfUniform ==
    (AfterDone /\ ~CdlMatch) =>
        (calc.rc = "OK" <=> (UniformLen /\ ValidBs(private.count_area[1].dl)))

\* C19: after a successful end_analysis the block size is valid and is the length
\* the request has found, s2b_shift is log2(bp_block / 512) and blocks is
\* no_cyl * trk_per_cyl * recs_per_track(0, bp_block)
C19_Geometry ==
    (AfterDone /\ calc.rc = "OK") =>
        /\ ValidBs(block.bp_block)
        /\ IF private.uses_cdl
           THEN private.count_area[5] = Count(0, block.bp_block)
           ELSE UniformLen /\ private.count_area[1].dl = block.bp_block
        /\ 512 * 2 ^ block.s2b_shift = block.bp_block
        /\ block.blocks = private.no_cyl * private.trk_per_cyl
                          * recs_per_track(private.dev_type, 0, block.bp_block)

(* ------------------------------------------------------------------ *)
(* dasd_eckd_format_device                                            *)
(* ------------------------------------------------------------------ *)
\* fdata->intensity & 0x01, & 0x04, & 0x08 and & ~0x08
WriteR0(intensity) == intensity % 2 = 1
Invalidate(intensity) == (intensity \div 4) % 2 = 1
UseCdl(intensity) == (intensity \div 8) % 2 = 1
WithoutCdl(intensity) == IF UseCdl(intensity) THEN intensity - 8 ELSE intensity

\* mutant: a start track behind the stop track is let through
FormatCheck_any_order(fdata) ==
    IF fdata.start_unit >= private.no_cyl * private.trk_per_cyl THEN "EINVAL"
    ELSE IF dasd_check_blocksize(fdata.blksize) # "OK" THEN "EINVAL"
    ELSE IF fdata.intensity \notin {0, 8, 1, 9, 4, 12} THEN "EINVAL"
    ELSE "OK"

\* the sanity checks and the switch on the intensity, all before the allocation
FormatCheck(fdata) ==
    IF fdata.start_unit >= private.no_cyl * private.trk_per_cyl THEN "EINVAL"
    ELSE IF fdata.start_unit > fdata.stop_unit THEN "EINVAL"
    ELSE IF dasd_check_blocksize(fdata.blksize) # "OK" THEN "EINVAL"
    ELSE IF fdata.intensity \notin {0, 8, 1, 9, 4, 12} THEN "EINVAL"
    ELSE "OK"

\* mutant: the label size is given to the first three records of track 1 only
FormatCount_label_first3(fdata, i) ==
    LET a == TrackAddr(fdata.start_unit, private.trk_per_cyl)
        c == [cyl |-> a.cyl, head |-> a.head, record |-> i + 1, kl |-> 0,
              dl |-> fdata.blksize]
        t0 == IF UseCdl(fdata.intensity) /\ fdata.start_unit = 0 /\ i < 3
              THEN [c EXCEPT !.kl = 4, !.dl = sizes_trk0[i + 1] - 4] ELSE c
    IN IF UseCdl(fdata.intensity) /\ fdata.start_unit = 1 /\ i < 3
       THEN [t0 EXCEPT !.kl = 44, !.dl = LABEL_SIZE - 44] ELSE t0

\* the count area of record i + 1 in "write remaining records"
FormatCount(fdata, i) ==
    LET a == TrackAddr(fdata.start_unit, private.trk_per_cyl)
        c == [cyl |-> a.cyl, head |-> a.head, record |-> i + 1, kl |-> 0,
              dl |-> fdata.blksize]
        t0 == IF UseCdl(fdata.intensity) /\ fdata.start_unit = 0 /\ i < 3
              THEN [c EXCEPT !.kl = 4, !.dl = sizes_trk0[i + 1] - 4] ELSE c
    IN IF UseCdl(fdata.intensity) /\ fdata.start_unit = 1
       THEN [t0 EXCEPT !.kl = 44, !.dl = LABEL_SIZE - 44] ELSE t0

EctAddr(i) == [k |-> "ect", id |-> i, j |-> 0]

\* one channel command word per count area, each chained to the one before
FormatCcws(head, ect) ==
    LET all == head \o [i \in 1..Len(ect) |->
                          [cmd_code |-> IF ect[i].record = 0 THEN "WRITE_RECORD_ZERO"
                                        ELSE "WRITE_CKD",
                           count |-> 8, sz |-> "", cda |-> EctAddr(i), flags |-> {"SLI"}]]
    IN [i \in 1..Len(all) |->
           IF i < Len(all) THEN [all[i] EXCEPT !.flags = @ \cup {"CC"}] ELSE all[i]]

format_device(fdata, clock, alloc_ok) ==
    LET rpt == recs_per_track(private.dev_type, 0, fdata.blksize)
        a == TrackAddr(fdata.start_unit, private.trk_per_cyl)
        how == WithoutCdl(fdata.intensity)
        cmd == IF how = 1 THEN "WRITE_RECORD_ZERO" ELSE "WRITE_CKD"
        de == define_extent(fdata.start_unit, fdata.start_unit, cmd, "base1", clock)
        lo == CASE how = 0 -> locate_record(fdata.start_unit, 0, rpt, cmd, fdata.blksize)
                [] how = 1 -> locate_record(fdata.start_unit, 0, rpt + 1, cmd,
                                            block.bp_block)
                [] OTHER -> locate_record(fdata.start_unit, 0, 1, cmd, 8)
        r0 == IF WriteR0(fdata.intensity)
              THEN <<[cyl |-> a.cyl, head |-> a.head, record |-> 0, kl |-> 0, dl |-> 8]>>
              ELSE <<>>
        recs == IF Invalidate(how)
                THEN <<[cyl |-> a.cyl, head |-> a.head, record |-> 1, kl |-> 0, dl |-> 0]>>
                ELSE [i \in 1..rpt |-> FormatCount(fdata, i - 1)]
        ect == r0 \o recs
        cplength == CASE fdata.intensity \in {0, 8} -> 2 + rpt
                      [] fdata.intensity \in {1, 9} -> 3 + rpt
                      [] OTHER -> 3
        head == <<de.ccw, [cmd_code |-> "LOCATE_RECORD", count |-> 16, sz |-> "",
                           cda |-> LoAddr(1), flags |-> {}]>>
    IN IF FormatCheck(fdata) # "OK" THEN Failed(FormatCheck(fdata))
       ELSE IF ~alloc_ok THEN Failed("ENOMEM")
       ELSE [rc |-> "OK",
             cqr |-> [status |-> "FILLED", startdev |-> "base1", memdev |-> "base1",
                      cplength |-> cplength, lo_size |-> 1,
                      ect_size |-> CASE fdata.intensity \in {0, 8} -> rpt
                                     [] fdata.intensity \in {1, 9} -> 1 + rpt
                                     [] OTHER -> 1,
                      cpaddr |-> FormatCcws(head, ect),
                      data |-> de.data, lo |-> <<lo>>, ect |-> ect, retries |-> 5]]

(* ------------------------------------------------------------------ *)
(* Specification: the descriptor builders define_extent, prefix and   *)
(* locate_record on every supported control unit and device           *)
(* ------------------------------------------------------------------ *)
\* dasd_eckd_ids: control unit type and device type of the supported devices
dasd_eckd_ids ==
    {<<14736, 13200>>, <<8453, 13200>>, <<14464, 13200>>, <<14736, 13184>>,
     <<8453, 13184>>, <<37699, 37701>>, <<8455, 13200>>, <<8455, 13184>>,
     <<5968, 13200>>, <<5968, 13184>>}

\* the commands the switches of define_extent and locate_record name
KnownCmds == ReadCmds \cup WriteCmds \cup WriteCkdCmds \cup EraseCmds

\* a command code of the driver that neither switch names
OtherCmds == {"PSF"}

\* a supported device in either layout, with or without prefix
InitDesc ==
    /\ private \in {[Private(id[2], cdl, pfx, FALSE) EXCEPT !.cu_type = id[1]] :
                      id \in dasd_eckd_ids, cdl \in BOOLEAN, pfx \in BOOLEAN}
    /\ block \in {Block(bs) : bs \in BlockSizes}
    /\ dasd_page_cache = FALSE
    /\ InitRest

Tracks == 0..(private.no_cyl * private.trk_per_cyl - 1)

\* one call of define_extent, or of prefix on a volume that uses it
CalcDefine(trk, totrk, cmd) ==
    /\ calc.fn = "none"
    /\ LET e == IF private.prefix
                THEN prefix(trk, totrk, cmd, "base1", "base1", "OK")
                ELSE define_extent(trk, totrk, cmd, "base1", "OK")
       IN calc' = [fn |-> "define_extent", trk |-> trk, totrk |-> totrk, cmd |-> cmd,
                   rc |-> e.rc, data |-> e.data]
    /\ UNCHANGED <<private, block, count, lock, dasd_page_cache, pool, bufmem, pool_err,
                   reqs, cqrs, pc, ib_addr>>

\* one call of locate_record
CalcLocate(trk, rec_on_trk, no_rec, cmd, reclen) ==
    /\ calc.fn = "none"
    /\ calc' = [fn |-> "locate_record", trk |-> trk, rec_on_trk |-> rec_on_trk,
                no_rec |-> no_rec, cmd |-> cmd, reclen |-> reclen,
                data |-> locate_record(trk, rec_on_trk, no_rec, cmd, reclen)]
    /\ UNCHANGED <<private, block, count, lock, dasd_page_cache, pool, bufmem, pool_err,
                   reqs, cqrs, pc, ib_addr>>

\* requests on track 0, on track 1 and behind the special area
DescRequests ==
    {Request(dir, first_rec, segs, "none") :
        dir \in Dirs, first_rec \in {0, BlkPerTrk, 2 * BlkPerTrk}, segs \in SegLists}

\* one call of dasd_eckd_build_cp on the base device, with the request it built
CalcRequest(req) ==
    /\ calc.fn = "none"
    /\ calc' = [fn |-> "build_cp", req |-> req,
                res |-> build_cp("base1", "base1", req, [s \in 1..Len(req.segs) |-> 0],
                                 "OK", TRUE)]
    /\ UNCHANGED <<private, block, count, lock, dasd_page_cache, pool, bufmem, pool_err,
                   reqs, cqrs, pc, ib_addr>>

\* the device types of dasd_eckd_ids and one that recs_per_track has no case for
DevTypes == {id[2] : id \in dasd_eckd_ids} \cup {13173}

\* the block sizes, and the key and data lengths of the label records
RecLens == {512, 1024, 2048, 4096, 24, 80, 96, 144}
KeyLens == {0, 4, 44}

\* one call of recs_per_track
CalcRecs(dev_type, kl, dl) ==
    /\ calc.fn = "none"
    /\ calc' = [fn |-> "recs_per_track", dev_type |-> dev_type, kl |-> kl, dl |-> dl,
                rpt |-> recs_per_track(dev_type, kl, dl)]
    /\ UNCHANGED <<private, block, count, lock, dasd_page_cache, pool, bufmem, pool_err,
                   reqs, cqrs, pc, ib_addr>>

\* the format requests: the first tracks, the last track and the one behind it,
\* valid and invalid block sizes, every intensity up to the first unused bit
FormatData ==
    [start_unit : {0, 1, 2, private.no_cyl * private.trk_per_cyl - 1,
                   private.no_cyl * private.trk_per_cyl},
     stop_unit : {0, 2, private.no_cyl * private.trk_per_cyl},
     blksize : {0, 512, 1000, 4096},
     intensity : 0..16]

\* one call of dasd_eckd_format_device
CalcFormat(fdata, alloc_ok) ==
    /\ calc.fn = "none"
    /\ calc' = [fn |-> "format_device", fdata |-> fdata, alloc_ok |-> alloc_ok,
                res |-> format_device(fdata, "OK", alloc_ok)]
    /\ UNCHANGED <<private, block, count, lock, dasd_page_cache, pool, bufmem, pool_err,
                   reqs, cqrs, pc, ib_addr>>

NextDesc ==
    \/ /\ calc.fn = "none"
       /\ \E trk \in Tracks, cmd \in KnownCmds \cup OtherCmds : CalcDefine(trk, trk, cmd)
    \/ /\ calc.fn = "none"
       /\ \E trk \in Tracks, rec_on_trk \in {0, 1}, cmd \in KnownCmds \cup OtherCmds :
             CalcLocate(trk, rec_on_trk, 1, cmd, block.bp_block)
    \/ /\ calc.fn = "none"
       /\ \E fdata \in FormatData, alloc_ok \in BOOLEAN : CalcFormat(fdata, alloc_ok)
    \/ /\ calc.fn = "none"
       /\ \E req \in DescRequests : CalcRequest(req)
    \/ /\ calc.fn = "none"
       /\ \E dev_type \in DevTypes, kl \in KeyLens, dl \in RecLens :
             CalcRecs(dev_type, kl, dl)

SpecDesc == InitDesc /\ [][NextDesc]_vars

(* ------------------------------------------------------------------ *)
(* C21                                                                *)
(* ------------------------------------------------------------------ *)
Defined == calc.fn = "define_extent"

\* C21 as stated: the read family gets the read-only mask, the write family the
\* write-only mask, erase and the special writes the read+write mask with the
\* authorize bit, and no recognised operation leaves the permission mask empty.
C21_NoEmptyMask ==
    Defined =>
        /\ calc.cmd \in ReadCmds => calc.data.perm = 1 /\ calc.data.auth = 0
        /\ calc.cmd \in WriteCmds => calc.data.perm = 2 /\ calc.data.auth = 0
        /\ calc.cmd \in EraseCmds => calc.data.perm = 3 /\ calc.data.auth = 1
        /\ calc.cmd \in KnownCmds => calc.data.perm # 0

\* C21 amended: the read family gets the read-only mask, the write family the
\* write-only mask, erase and the special writes the read+write mask with the
\* authorize bit, and the only recognised operations that leave the permission
\* mask empty are the format writes WRITE_CKD and WRITE_CKD_MT, which only select
\* the bypass-cache mode.
C21_Permission ==
    Defined =>
        /\ calc.cmd \in ReadCmds => calc.data.perm = 1 /\ calc.data.auth = 0
        /\ calc.cmd \in WriteCmds => calc.data.perm = 2 /\ calc.data.auth = 0
        /\ calc.cmd \in EraseCmds => calc.data.perm = 3 /\ calc.data.auth = 1
        /\ calc.cmd \in WriteCkdCmds =>
              /\ calc.data.perm = 0 /\ calc.data.auth = 0
              /\ calc.data.operation = "DASD_BYPASS_CACHE"
        /\ calc.cmd \in KnownCmds \ WriteCkdCmds => calc.data.perm # 0

\* a format write has been given its extent, with an empty mask
C21_Witness ==
    /\ Defined /\ calc.cmd = "WRITE_CKD" /\ calc.data.perm = 0
    /\ calc.data.operation = "DASD_BYPASS_CACHE"

\* an erase has been given its extent, with the authorize bit
C21_WitnessErase == Defined /\ calc.cmd = "ERASE" /\ calc.data.perm = 3

(* ------------------------------------------------------------------ *)
(* C22                                                                *)
(* ------------------------------------------------------------------ *)
Located == calc.fn = "locate_record"

\* C22: for an operation code neither switch names, define_extent produces a
\* descriptor with the read-only permission mask, and locate_record one whose
\* operation is not a write or an erase.
C22_SafeDefaults ==
    /\ (Defined /\ calc.cmd \in OtherCmds) => calc.data.perm = 1
    /\ (Located /\ calc.cmd \in OtherCmds) => calc.data.operation \notin {1, 3, 11}

(* ------------------------------------------------------------------ *)
(* C23                                                                *)
(* ------------------------------------------------------------------ *)
HasFlag(data) == "REGULAR_DATA_FORMAT" \in data.ga_extended

\* the request built by the last call, if there is one
Built == calc.fn = "build_cp" /\ calc.res.rc = "OK"
FormatBuilt == calc.fn = "format_device" /\ calc.res.rc = "OK"

\* a record of the request is transferred with another length than the block size
LabelInRequest ==
    \E i \in 1..Len(calc.res.cqr.cpaddr) :
        \/ calc.res.cqr.cpaddr[i].cmd_code \in {"READ_KD_MT", "WRITE_KD_MT"}
        \/ /\ calc.res.cqr.cpaddr[i].cmd_code \in {"READ_MT", "WRITE_MT"}
           /\ calc.res.cqr.cpaddr[i].count # block.bp_block

LabelInFormat == \E i \in 1..Len(calc.res.cqr.ect) : calc.res.cqr.ect[i].kl # 0

C23_WitnessNoFlag ==
    /\ Defined /\ private.cu_type = 14736 /\ calc.trk = 2 /\ ~HasFlag(calc.data)

\* a request on the label tracks has its label records and no flag
C23_WitnessLabel ==
    /\ Built /\ private.cu_type = 8455 /\ LabelInRequest /\ ~HasFlag(calc.res.cqr.data)

\* track 0 of a volume not in the compatible layout is formatted for it: the
\* flag is set and the first records have their special lengths
C23_FormatLabel ==
    /\ FormatBuilt /\ HasFlag(calc.res.cqr.data) /\ LabelInFormat

(* ------------------------------------------------------------------ *)
(* C24                                                                *)
(* ------------------------------------------------------------------ *)
\* the pair that locate_record gives a command
Pair(cmd) ==
    LET lo == locate_record(0, 1, 1, cmd, block.bp_block)
    IN <<lo.orientation, lo.operation>>

CalcPair == <<calc.data.orientation, calc.data.operation>>

\* C24 as stated: read, write, home-address, record-zero and erase each get a
\* pair of their own; no two of these kinds share a pair.
C24_AllDistinct ==
    Located =>
        \A other \in {"READ", "WRITE", "ERASE", "READ_HOME_ADDRESS", "WRITE_HOME_ADDRESS",
                      "READ_RECORD_ZERO", "WRITE_RECORD_ZERO"} :
            (calc.cmd \in {"READ", "WRITE", "ERASE", "READ_HOME_ADDRESS",
                           "WRITE_HOME_ADDRESS", "READ_RECORD_ZERO", "WRITE_RECORD_ZERO"}
             /\ other # calc.cmd) => Pair(other) # CalcPair

\* C24 amended: read, write, erase, write-home-address and write-record-zero get
\* the pairs (0, 6), (0, 1), (0, 11), (3, 3) and (1, 3), no two of them the same;
\* read-home-address and read-record-zero both get the pair (3, 22), which none
\* of the other five has, and differ only in the record count.
C24_Table ==
    Located =>
        /\ calc.cmd = "READ" => CalcPair = <<0, 6>>
        /\ calc.cmd = "WRITE" => CalcPair = <<0, 1>>
        /\ calc.cmd = "ERASE" => CalcPair = <<0, 11>>
        /\ calc.cmd = "WRITE_HOME_ADDRESS" => CalcPair = <<3, 3>>
        /\ calc.cmd = "WRITE_RECORD_ZERO" => CalcPair = <<1, 3>>
        /\ calc.cmd = "READ_HOME_ADDRESS" =>
              CalcPair = <<3, 22>> /\ calc.data.count = calc.no_rec
        /\ calc.cmd = "READ_RECORD_ZERO" =>
              CalcPair = <<3, 22>> /\ calc.data.count = calc.no_rec + 1
        /\ \A other \in {"READ", "WRITE", "ERASE", "WRITE_HOME_ADDRESS",
                         "WRITE_RECORD_ZERO"} :
              (calc.cmd \in {"READ", "WRITE", "ERASE", "READ_HOME_ADDRESS",
                             "WRITE_HOME_ADDRESS", "READ_RECORD_ZERO", "WRITE_RECORD_ZERO"}
               /\ other # calc.cmd) => Pair(other) # CalcPair

\* record zero has been located for reading
C24_Witness ==
    /\ Located /\ calc.cmd = "READ_RECORD_ZERO" /\ CalcPair = Pair("READ_HOME_ADDRESS")

(* ------------------------------------------------------------------ *)
(* C25                                                                *)
(* ------------------------------------------------------------------ *)
\* C25: every track of the volume is taken apart into a head below the number of
\* heads and a cylinder such that cylinder * heads + head is the track again, in
\* the extent of define_extent and prefix and in the seek address of locate_record.
C25_TrackAddr ==
    /\ Defined =>
          /\ calc.data.beg_ext.head < private.trk_per_cyl
          /\ calc.data.beg_ext.cyl * private.trk_per_cyl + calc.data.beg_ext.head = calc.trk
          /\ calc.data.end_ext.head < private.trk_per_cyl
          /\ calc.data.end_ext.cyl * private.trk_per_cyl + calc.data.end_ext.head
                = calc.totrk
    /\ Located =>
          /\ calc.data.head < private.trk_per_cyl
          /\ calc.data.cyl * private.trk_per_cyl + calc.data.head = calc.trk

\* the last track of the volume has been located
C25_Witness ==
    /\ Located /\ calc.trk = private.no_cyl * private.trk_per_cyl - 1
    /\ calc.data.cyl = private.no_cyl - 1 /\ calc.data.head = private.trk_per_cyl - 1

\* a track in the middle of a cylinder has been given its extent
C25_WitnessExtent ==
    /\ Defined /\ calc.trk = private.trk_per_cyl + 1
    /\ calc.data.beg_ext = [cyl |-> 1, head |-> 1]

(* ------------------------------------------------------------------ *)
(* C26                                                                *)
(* ------------------------------------------------------------------ *)
\* the least number of cells of d bytes that hold x bytes
CellsFor(x, d) == CHOOSE c \in 0..x : c * d >= x /\ (c = 0 \/ (c - 1) * d < x)

\* the cells of a track and the cells one record without key takes
TrackCells == CASE calc.dev_type = 13184 -> 1499
                [] calc.dev_type = 13200 -> 1729
                [] calc.dev_type = 37701 -> 1420

RecordCells ==
    LET dn == CellsFor(calc.dl + 6, 232) + 1
    IN CASE calc.dev_type = 13184 -> 15 + CellsFor(calc.dl + 12, 32)
         [] calc.dev_type = 13200 -> 10 + 9 + CellsFor(calc.dl + 6 * dn, 34)
         [] calc.dev_type = 37701 -> 18 + 7 + CellsFor(calc.dl + 6 * dn, 34)

\* C26: for a 3380, 3390 or 9345, no key and a valid block size, recs_per_track
\* is the largest n such that n records fit on the track: n * cost <= capacity
\* < (n + 1) * cost; for 4096 bytes it is 10, 12 and 9.
C26_Largest ==
    (/\ calc.fn = "recs_per_track" /\ calc.dev_type \in {13184, 13200, 37701}
     /\ calc.kl = 0 /\ calc.dl \in {512, 1024, 2048, 4096}) =>
        /\ calc.rpt * RecordCells <= TrackCells
        /\ TrackCells < (calc.rpt + 1) * RecordCells
        /\ calc.dl = 4096 =>
              calc.rpt = CASE calc.dev_type = 13184 -> 10
                           [] calc.dev_type = 13200 -> 12
                           [] calc.dev_type = 37701 -> 9

\* the blocks of 512 bytes on a track of a 3390 have been counted
C26_Witness ==
    /\ calc.fn = "recs_per_track" /\ calc.dev_type = 13200 /\ calc.kl = 0
    /\ calc.dl = 512 /\ calc.rpt = 49

(* ------------------------------------------------------------------ *)
(* C27                                                                *)
(* ------------------------------------------------------------------ *)
\* C27, the function: recs_per_track is 0 for a device type it has no case for
\* and at least 1 for a 3380, 3390 or 9345 with a valid block size.
C27_ZeroIffUnknown ==
    calc.fn = "recs_per_track" =>
        /\ calc.dev_type \notin {13184, 13200, 37701} => calc.rpt = 0
        /\ (/\ calc.dev_type \in {13184, 13200, 37701}
            /\ calc.dl \in {512, 1024, 2048, 4096}) => calc.rpt >= 1

\* C27, the callers: an analysis that ends with success has not taken a track of
\* 0 records for the layout of the volume.
C27_NoZeroLayout ==
    (AfterDone /\ calc.rc = "OK") =>
        /\ recs_per_track(private.dev_type, 0, block.bp_block) >= 1
        /\ block.blocks >= 1

(* ------------------------------------------------------------------ *)
(* C28                                                                *)
(* ------------------------------------------------------------------ *)
Formatted == calc.fn = "format_device"

\* the format requests the claim calls invalid
InvalidFormat ==
    \/ calc.fdata.intensity \notin {0, 1, 4, 8 + 0, 8 + 1, 8 + 4}
    \/ calc.fdata.start_unit \notin Tracks
    \/ calc.fdata.start_unit > calc.fdata.stop_unit
    \/ calc.fdata.blksize \notin {512, 1024, 2048, 4096}

NoRequest == DOMAIN calc.res = {"rc"}

\* C28 as stated: an invalid format request is answered by EINVAL and no request
\* is allocated; every other format request is answered by a request in status
\* FILLED.
C28_FilledOtherwise ==
    Formatted =>
        /\ InvalidFormat => calc.res.rc = "EINVAL" /\ NoRequest
        /\ ~InvalidFormat => calc.res.rc = "OK" /\ calc.res.cqr.status = "FILLED"

\* C28 amended: an invalid format request is answered by EINVAL and no request is
\* allocated; every other format request is answered by a request in status
\* FILLED, or by the error of the allocation when the request cannot be allocated.
C28_Format ==
    Formatted =>
        /\ InvalidFormat => calc.res.rc = "EINVAL" /\ NoRequest
        /\ (~InvalidFormat /\ calc.alloc_ok) =>
              calc.res.rc = "OK" /\ calc.res.cqr.status = "FILLED"
        /\ (~InvalidFormat /\ ~calc.alloc_ok) => calc.res.rc = "ENOMEM" /\ NoRequest

\* a request whose only fault is a stop track before the start track was refused
\* although memory was there
C28_Witness ==
    /\ Formatted /\ calc.alloc_ok /\ calc.res.rc = "EINVAL"
    /\ calc.fdata.start_unit = 1 /\ calc.fdata.stop_unit = 0
    /\ calc.fdata.blksize = 4096 /\ calc.fdata.intensity = 8

\* the last track of the volume is formatted
C28_WitnessFilled ==
    /\ Formatted /\ calc.res.rc = "OK" /\ calc.fdata.intensity = 9
    /\ calc.fdata.start_unit = private.no_cyl * private.trk_per_cyl - 1

(* ------------------------------------------------------------------ *)
(* C29                                                                *)
(* ------------------------------------------------------------------ *)
\* C29: a normal format request writes recs_per_track(blksize) records, numbered
\* from 1; the key and data length of each add up to the length the classifier
\* gives the record: 28, 148, 84 for the first three records of track 0 and 140
\* for every record of track 1 with the compatible layout, and otherwise the key
\* length is 0 and the data length the block size.
C29_Records ==
    (Formatted /\ calc.res.rc = "OK" /\ calc.fdata.intensity \in {0, 8}) =>
        LET n == recs_per_track(private.dev_type, 0, calc.fdata.blksize)
            ect == calc.res.cqr.ect
            cdl == calc.fdata.intensity = 8
            trk == calc.fdata.start_unit
        IN /\ Len(ect) = n
           /\ Len(calc.res.cqr.cpaddr) = 2 + n
           /\ \A i \in 1..n :
                 LET recid == trk * n + i - 1
                     special == cdl /\ dasd_eckd_cdl_special(n, recid)
                 IN /\ ect[i].record = i
                    /\ calc.res.cqr.cpaddr[2 + i].cmd_code = "WRITE_CKD"
                    /\ special => ect[i].kl + ect[i].dl = dasd_eckd_cdl_reclen(recid)
                    /\ (cdl /\ trk = 0 /\ i <= 3) =>
                          ect[i].kl + ect[i].dl = <<28, 148, 84>>[i]
                    /\ (cdl /\ trk = 1) => ect[i].kl + ect[i].dl = 140
                    /\ ~special => ect[i].kl = 0 /\ ect[i].dl = calc.fdata.blksize
                    /\ special <=> (cdl /\ (trk = 1 \/ (trk = 0 /\ i <= 3)))

\* track 1 of a 3390 has been formatted with twelve label records
C29_Witness ==
    /\ Formatted /\ calc.res.rc = "OK" /\ calc.fdata.intensity = 8
    /\ calc.fdata.start_unit = 1 /\ calc.fdata.blksize = 4096
    /\ Len(calc.res.cqr.ect) = 12 /\ calc.res.cqr.ect[12].kl = 44

\* track 0 has been formatted with its three special records and the blocks
C29_WitnessTrack0 ==
    /\ Formatted /\ calc.res.rc = "OK" /\ calc.fdata.intensity = 8
    /\ calc.fdata.start_unit = 0 /\ calc.fdata.blksize = 512
    /\ calc.res.cqr.ect[3].dl = 80 /\ calc.res.cqr.ect[4].dl = 512

(* ------------------------------------------------------------------ *)
(* Specification: two block devices build and free requests on a      *)
(* shared alias, with every error of build_cp                         *)
(* ------------------------------------------------------------------ *)
\* a volume with prefix and XRC, so that a write can find the clock out of sync
InitLock ==
    /\ private = Private(13200, FALSE, TRUE, TRUE)
    /\ block = Block(2048)
    /\ dasd_page_cache = FALSE
    /\ InitRest

\* a write, and a write with a segment that is no multiple of the block size
LockRequests ==
    {Request("WRITE", 0, <<Seg(1, FALSE)>>, "none"),
     Request("WRITE", 0, <<Seg(1, FALSE)>>, "len")}

NextLock ==
    \E p \in Bases :
        \/ AliasCheck(p, ReqIds, {"alias"})
        \/ AliasLock(p)
        \/ AliasBuildCp(p, LockRequests)
        \/ \E r \in ReqIds : FreeAliasCp(p, r)
        \/ FreeCp(p)

SpecLock == InitLock /\ [][NextLock]_vars

(* ------------------------------------------------------------------ *)
(* C30                                                                *)
(* ------------------------------------------------------------------ *)
\* C30: the lock of a device is held by a caller only while that caller is inside
\* dasd_eckd_build_cp for that device: it is free again when build_alias_cp has
\* returned, whatever it returned, it is never taken on the way to EBUSY, and it
\* is free again before free_alias_cp goes on to dasd_eckd_free_cp.
C30_LockReleased ==
    \A p \in Bases : \A d \in Devices :
        lock[d] = p => pc[p].at = "build" /\ pc[p].sd = d

\* every step out of build_alias_cp and into dasd_eckd_free_cp leaves the lock of
\* the device free
C30_Steps ==
    [][\A p \in Bases :
          /\ (pc[p].at = "build" /\ pc'[p].at = "idle") => lock'[pc[p].sd] = "free"
          /\ (pc[p].at = "idle" /\ pc'[p] # pc[p] /\ pc'[p].ret = "EBUSY") =>
                lock' = lock
          /\ (pc[p].at = "idle" /\ pc'[p].at = "free_cp") => lock'[pc'[p].sd] = "free"]_vars

C30_Lock == []C30_LockReleased /\ C30_Steps

Returned(p, ret) ==
    /\ pc[p].at = "idle" /\ pc[p].ret = ret
    /\ \A d \in Devices : lock[d] # p

\* every way out of build_alias_cp has been taken, and a request is being freed
\* while the other block device builds on the same alias
C30_Witness == Returned("base1", "EAGAIN")
C30_WitnessBuilt == Returned("base1", "CQR")
C30_WitnessInvalid == Returned("base1", "EINVAL")
C30_WitnessNoMemory == Returned("base1", "ENOMEM")
C30_WitnessBusy == Returned("base1", "EBUSY")
C30_WitnessFree ==
    /\ pc["base1"].at = "free_cp" /\ \A d \in Devices : lock[d] # "base1"
    /\ pc["base2"].at = "build" /\ lock[pc["base1"].sd] = "base2"

(* ------------------------------------------------------------------ *)
(* Specification: the channel programs of dasd_eckd_build_cp,         *)
(* dasd_eckd_format_device and dasd_eckd_analysis_ccw                 *)
(* ------------------------------------------------------------------ *)
\* a supported device in either layout, with or without prefix, XRC and page cache
InitProg ==
    /\ private \in {[Private(id[2], cdl, pfx, xrc) EXCEPT !.cu_type = id[1]] :
                      id \in dasd_eckd_ids, cdl \in BOOLEAN, pfx \in BOOLEAN,
                      xrc \in BOOLEAN}
    /\ block \in {Block(bs) : bs \in BlockSizes}
    /\ dasd_page_cache \in BOOLEAN
    /\ InitRest

\* requests around the special records and around the boundary 2 * blk_per_trk
ProgRequests ==
    {Request(dir, first_rec, segs, "none") :
        dir \in Dirs, first_rec \in FirstRecs, segs \in SegLists}

\* one call of dasd_eckd_build_cp that finds memory, with the request it built
CalcProgram(req, copies, clock) ==
    /\ calc.fn = "none"
    /\ calc' = [fn |-> "build_cp", req |-> req, clock |-> clock,
                res |-> build_cp("base1", "base1", req, copies, clock, TRUE)]
    /\ UNCHANGED <<private, block, count, lock, dasd_page_cache, pool, bufmem, pool_err,
                   reqs, cqrs, pc, ib_addr>>

\* the format requests that pass the sanity checks
ProgFormats ==
    [start_unit : {0, 1, 2, private.no_cyl * private.trk_per_cyl - 1},
     stop_unit : {private.no_cyl * private.trk_per_cyl - 1},
     blksize : {512, 4096},
     intensity : {0, 1, 4, 8, 9, 12}]

\* one call of dasd_eckd_format_device that finds memory
CalcFormatProgram(fdata, clock) ==
    /\ calc.fn = "none"
    /\ calc' = [fn |-> "format_device", fdata |-> fdata, clock |-> clock,
                res |-> format_device(fdata, clock, TRUE)]
    /\ UNCHANGED <<private, block, count, lock, dasd_page_cache, pool, bufmem, pool_err,
                   reqs, cqrs, pc, ib_addr>>

\* one call of dasd_eckd_analysis_ccw that finds memory
CalcProbe ==
    /\ calc.fn = "none"
    /\ calc' = [fn |-> "analysis_ccw", clock |-> "OK",
                res |-> [rc |-> "OK", cqr |-> analysis_ccw("base1")]]
    /\ UNCHANGED <<private, block, count, lock, dasd_page_cache, pool, bufmem, pool_err,
                   reqs, cqrs, pc, ib_addr>>

NextProg ==
    \/ /\ calc.fn = "none"
       /\ \E req \in ProgRequests :
          \E copies \in CopyChoices(req), clock \in ClockChoices(req) :
             CalcProgram(req, copies, clock)
    \/ /\ calc.fn = "none"
       /\ \E fdata \in ProgFormats, clock \in ClockRcs : CalcFormatProgram(fdata, clock)
    \/ CalcProbe

SpecProg == InitProg /\ [][NextProg]_vars

\* the request of the last call, if it built one
IoProg == calc.fn = "build_cp" /\ calc.res.rc = "OK"
FormatProg == calc.fn = "format_device" /\ calc.res.rc = "OK"
ProbeProg == calc.fn = "analysis_ccw"
Cp == calc.res.cqr.cpaddr

(* ------------------------------------------------------------------ *)
(* C32                                                                *)
(* ------------------------------------------------------------------ *)
\* C32: a request holds no more channel command words than were allocated for it,
\* no more locate record payloads, and no more indirect address words or count
\* areas than its data area was sized for.
C32_WithinAllocation ==
    (IoProg \/ FormatProg \/ ProbeProg) =>
        /\ Len(Cp) <= calc.res.cqr.cplength
        /\ Len(calc.res.cqr.lo) <= calc.res.cqr.lo_size
        /\ IoProg => Len(calc.res.cqr.idaws) <= calc.res.cqr.idaw_size
        /\ FormatProg => Len(calc.res.cqr.ect) <= calc.res.cqr.ect_size

\* a request across the boundary of a compatible volume fills what was allocated
C32_Witness ==
    /\ IoProg /\ private.uses_cdl
    /\ calc.req.sector = (2 * BlkPerTrk - 1) * 2 ^ block.s2b_shift
    /\ Len(calc.req.segs) = 2
    /\ Len(Cp) = calc.res.cqr.cplength /\ Len(calc.res.cqr.lo) = 2
    /\ calc.res.cqr.lo_size = 2

\* a format request with record zero fills what was allocated
C32_WitnessFormat ==
    /\ FormatProg /\ calc.fdata.intensity = 9 /\ Len(Cp) = calc.res.cqr.cplength
    /\ Len(calc.res.cqr.ect) = calc.res.cqr.ect_size

(* ------------------------------------------------------------------ *)
(* C33                                                                *)
(* ------------------------------------------------------------------ *)
\* C33: in every request built, every channel command word but the last carries
\* the command chaining flag, and the last does not.
C33_Chain ==
    (IoProg \/ FormatProg \/ ProbeProg) =>
        \A i \in 1..Len(Cp) : ("CC" \in Cp[i].flags) <=> (i < Len(Cp))

\* a request with several locate records has been built
C33_Witness ==
    /\ IoProg /\ private.uses_cdl /\ Len(calc.res.cqr.lo) = 2 /\ Len(Cp) = 5
    /\ "CC" \in Cp[4].flags /\ "CC" \notin Cp[5].flags

C33_WitnessProbe == ProbeProg /\ Len(Cp) = 8 /\ "CC" \notin Cp[8].flags

(* ------------------------------------------------------------------ *)
(* C34                                                                *)
(* ------------------------------------------------------------------ *)
LocateAt == {i \in 1..Len(Cp) : Cp[i].cmd_code = "LOCATE_RECORD"}

\* the payload of the locate record at i, and the data transfers that follow it
PayloadOf(i) == calc.res.cqr.lo[Cardinality({j \in LocateAt : j <= i})]
Follow(i) ==
    LET stops == {j \in LocateAt \cup {Len(Cp) + 1} : j > i}
        stop == CHOOSE j \in stops : \A k \in stops : j <= k
    IN stop - i - 1

RECURSIVE SumCounts(_)
SumCounts(los) == IF los = <<>> THEN 0 ELSE Head(los).count + SumCounts(Tail(los))

\* C34 as stated: the count of every locate record is the number of data
\* transfers between it and the next locate record or the end of the program.
C34_CountIsTransfers ==
    (IoProg \/ FormatProg) => \A i \in LocateAt : PayloadOf(i).count = Follow(i)

\* C34 amended: the count of every locate record is the number of data transfers
\* between it and the next locate record or the end of the program, so that the
\* counts of an I/O request add up to its blocks; only the locate record of a
\* format request that writes record zero counts one more than the transfers
\* that follow it (record zero and the records of the track).
C34_Count ==
    /\ IoProg =>
          /\ \A i \in LocateAt : PayloadOf(i).count = Follow(i)
          /\ SumCounts(calc.res.cqr.lo) = SumBlocks(calc.req.segs)
    /\ FormatProg =>
          \A i \in LocateAt :
              PayloadOf(i).count =
                  IF calc.fdata.intensity \in {1, 9} THEN Follow(i) + 1 ELSE Follow(i)

\* a format request with record zero: 12 records and record zero follow a count
\* of 14
C34_Witness ==
    /\ FormatProg /\ calc.fdata.intensity = 1 /\ calc.fdata.blksize = 4096
    /\ private.dev_type = 13200 /\ calc.res.cqr.lo[1].count = 14 /\ Follow(2) = 13

C34_WitnessIo ==
    /\ IoProg /\ private.uses_cdl /\ Len(calc.res.cqr.lo) = 2
    /\ calc.res.cqr.lo[1].count = 1 /\ calc.res.cqr.lo[2].count = 1

(* ------------------------------------------------------------------ *)
(* C39                                                                *)
(* ------------------------------------------------------------------ *)
\* C39: the extent of a request says 'time stamp valid' only if the clock gave a
\* synchronized time stamp for it.
C39_StampOnlyIfSynced ==
    (IoProg \/ FormatProg) =>
        ("TIME_STAMP_VALID" \in calc.res.cqr.data.ga_extended => calc.clock = "OK")

(* ------------------------------------------------------------------ *)
(* Specification: the in-flight counters of two base volumes and      *)
(* their alias, with termination and the free path entered again      *)
(* ------------------------------------------------------------------ *)
CountSlots == {1, 2}

\* every request is built, run, terminated and freed once
NextCountOnce ==
    \/ \E p \in Bases :
          \/ AliasCheck(p, CountSlots, {"none", "alias"})
          \/ AliasLock(p)
          \/ AliasBuildCp(p, OneBlockRead)
          \/ \E r \in CountSlots : FreeAliasCp(p, r)
          \/ FreeCp(p)
    \/ \E r \in CountSlots :
          \/ ExecStart(r)
          \/ ExecEnd(r)
          \/ ExecTerminate(r)
          \/ HandleTerminated(r)

SpecCountOnce == InitConc /\ [][NextCountOnce]_vars

\* the free path may be entered a second time for a request
NextCount ==
    \/ NextCountOnce
    \/ \E p \in Bases :
          \/ \E r \in CountSlots : FreeAliasCpAgain(p, r)
          \/ FreeCpAgain(p)

SpecCount == InitConc /\ [][NextCount]_vars

(* ------------------------------------------------------------------ *)
(* C35                                                                *)
(* ------------------------------------------------------------------ *)
\* the requests that are built and not freed and belong to device d
Owned(d) ==
    {r \in ReqIds : cqrs[r].status \notin {"NONE", "FREED", "REFREED"} /\ cqrs[r].memdev = d}

\* the calls between the increment and the end of the build, and between the
\* decrement and the release of the request
Building(d) == {p \in Bases : pc[p].at = "build" /\ pc[p].sd = d}
Freeing(d) == {p \in Bases : pc[p].at = "free_cp" /\ pc[p].sd = d}

\* C35: the counter of every device is never negative and is the number of
\* requests built and not yet freed whose memdev is that device (a request
\* counts from the increment of its build to the decrement of its free).
C35_Counter ==
    \A d \in Devices :
        /\ count[d] >= 0
        /\ count[d] = Cardinality(Owned(d)) + Cardinality(Building(d))
                        - Cardinality(Freeing(d))

\* a request terminated on the alias and reset to its base is still counted
\* on the alias
C35_WitnessReset ==
    \E r \in CountSlots :
        /\ cqrs[r].status = "FILLED" /\ cqrs[r].memdev = "alias"
        /\ cqrs[r].startdev = cqrs[r].block /\ count["alias"] = 1
        /\ \A p \in Bases : pc[p].at = "idle"

(* ------------------------------------------------------------------ *)
(* C37                                                                *)
(* ------------------------------------------------------------------ *)
\* the data descriptor of the k-th block of a request
DataCcw(cqr, k) ==
    cqr.cpaddr[CHOOSE i \in DataIdx(cqr) : Cardinality({m \in DataIdx(cqr) : m <= i}) = k]

\* the blocks of a request that are short special records
ShortSpecial(req) ==
    LET first_rec == req.sector \div (2 ^ block.s2b_shift)
    IN {k \in 1..Len(FlatBlocks(req.segs, 1)) :
           /\ RecSpecial(private.uses_cdl, BlkPerTrk, first_rec + k - 1)
           /\ dasd_eckd_cdl_reclen(first_rec + k - 1) < block.bp_block}

\* C37: when free_cp returns for a read on a compatible volume, every block that
\* is a special record shorter than the block size holds 0xe5 behind the record,
\* and its data descriptor transfers the record length only.
C37_Filler ==
    [][\A p \in Bases :
          (pc[p].at = "free_cp" /\ pc'[p].at = "idle" /\ reqs[pc[p].r].dir = "READ") =>
              LET r == pc[p].r
                  first_rec == reqs[r].sector \div (2 ^ block.s2b_shift)
                  blocks == FlatBlocks(reqs[r].segs, 1)
              IN \A k \in ShortSpecial(reqs[r]) :
                    /\ reqs'[r].segs[blocks[k].s].mem[blocks[k].j].hi = "e5"
                    /\ DataCcw(cqrs[r], k).count = dasd_eckd_cdl_reclen(first_rec + k - 1)
                    /\ DataCcw(cqrs[r], k).count < block.bp_block]_vars

\* a read of the volume label that ended well has been freed: the record is in
\* the caller's block, followed by the filler
C37_Witness ==
    /\ private.uses_cdl /\ dasd_page_cache /\ cqrs[1] = FreedCqr
    /\ reqs[1].dir = "READ" /\ reqs[1].sector = 2 * 2 ^ block.s2b_shift
    /\ reqs[1].segs[1].mem[1] = [lo |-> "disk", hi |-> "e5"]
    /\ pc["base1"].ret = "1"

\* the same read about to be freed, with the filler in a copy buffer only
C37_WitnessCopy ==
    /\ private.uses_cdl /\ pc["base1"].at = "free_cp" /\ reqs[1].dir = "READ"
    /\ 1 \in ShortSpecial(reqs[1]) /\ cqrs[1].status = "DONE"
    /\ 1 \notin pool /\ bufmem[1][1] = [lo |-> "disk", hi |-> "e5"]
    /\ reqs[1].segs[1].mem[1].hi # "e5"

\* a request that was never run is freed: no record, but the filler
C37_WitnessFilled ==
    /\ private.uses_cdl /\ cqrs[1] = FreedCqr /\ reqs[1].dir = "READ"
    /\ reqs[1].segs[1].mem[1].lo # "disk" /\ reqs[1].segs[1].mem[1].hi = "e5"

(* ------------------------------------------------------------------ *)
(* Specification: do_analysis called at any time                      *)
(* ------------------------------------------------------------------ *)
ProbeSlots == {1, 2}

\* a 3390 volume that has not been analysed
InitProbe == InitAna /\ private.dev_type = 13200

\* the state machine of the device is scheduled again while it waits for the
\* callback of a probe
KickAgain(p) ==
    /\ pc[p].at = "wait"
    /\ pc' = [pc EXCEPT ![p] = [Idle EXCEPT !.at = "kicked"]]
    /\ UNCHANGED <<private, block, count, lock, dasd_page_cache, pool, bufmem, pool_err,
                   reqs, cqrs, calc, ib_addr>>

NextProbe ==
    \/ Kick("base1")
    \/ KickAgain("base1")
    \/ StartAnalysis("base1", Min(IF FreeSlots(ProbeSlots) # {} THEN FreeSlots(ProbeSlots)
                                  ELSE ProbeSlots))
    \/ EndAnalysis("base1")
    \/ \E r \in ProbeSlots :
          \/ ExecStart(r)
          \/ ProbeEnd(r)
          \/ AnalysisCallback("base1", r)

SpecProbe == InitProbe /\ [][NextProbe]_vars

(* ------------------------------------------------------------------ *)
(* C38                                                                *)
(* ------------------------------------------------------------------ *)
\* the probes that are queued or running
Outstanding == {r \in ReqIds : cqrs[r].status \in {"FILLED", "IN_IO"}}

\* C38: at most one probe is outstanding at a time, and do_analysis does not
\* evaluate the count fields while a probe is running.
C38_OneProbe ==
    /\ Cardinality(Outstanding) <= 1
    /\ (pc["base1"].at = "kicked" /\ ~StatusUnset(private.init_cqr_status)) =>
           \A r \in ReqIds : cqrs[r].status # "IN_IO"

(* ------------------------------------------------------------------ *)
(* Specification: tracks 0 and 2 are formatted, then the volume is    *)
(* analysed                                                           *)
(* ------------------------------------------------------------------ *)
ProbedTracks == {0, 2}
NoTrack == <<>>

\* the count fields on the probed tracks, as the format requests left them
Disk == IF calc.fn = "disk" THEN calc.tracks ELSE [t \in ProbedTracks |-> NoTrack]

\* the records of a track behind record zero
RECURSIVE TrackRecords(_)
TrackRecords(ect) ==
    IF ect = <<>> THEN <<>>
    ELSE IF Head(ect).record = 0 THEN TrackRecords(Tail(ect))
    ELSE <<Head(ect)>> \o TrackRecords(Tail(ect))

\* the tracks are formatted with and without the compatible disk layout, or
\* invalidated
DiskSizes == {512, 2048, 4096}
DiskFormats ==
    [start_unit : ProbedTracks, stop_unit : {2}, blksize : DiskSizes,
     intensity : {0, 4, 8}]

\* a format request for one track is built and run while the volume is not
\* being analysed: the track holds the count fields of its write commands
FormatTrack(p, fdata) ==
    /\ pc[p].at = "idle"
    /\ LET res == format_device(fdata, "OK", TRUE)
       IN /\ res.rc = "OK"
          /\ calc' = [fn |-> "disk",
                      tracks |-> [Disk EXCEPT ![fdata.start_unit] =
                                      TrackRecords(res.cqr.ect)]]
    /\ UNCHANGED <<private, block, count, lock, dasd_page_cache, pool, bufmem, pool_err,
                   reqs, cqrs, pc, ib_addr>>

\* what the read count commands of the probe find: the first four records of
\* track 0 and the first record of track 2
ReadCounts(disk) ==
    [i \in 1..5 |-> LET c == IF i <= 4 THEN disk[0][i] ELSE disk[2][1]
                    IN Count(c.kl, c.dl)]

\* the probe ends; it ends well only when the records it reads exist
ProbeEndDisk(r) ==
    /\ cqrs[r].status = "IN_IO"
    /\ \E outcome \in FinalStatus :
         /\ outcome = "DONE" => Len(Disk[0]) >= 4 /\ Len(Disk[2]) >= 1
         /\ cqrs' = [cqrs EXCEPT ![r].status = outcome]
         /\ private' = [private EXCEPT
                           !.count_area = IF outcome = "DONE" THEN ReadCounts(Disk) ELSE @]
    /\ UNCHANGED <<block, count, lock, dasd_page_cache, pool, bufmem, pool_err, reqs, pc,
                   calc, ib_addr>>

NextAgree ==
    \/ \E fdata \in DiskFormats : FormatTrack("base1", fdata)
    \/ Kick("base1")
    \/ StartAnalysis("base1", 1)
    \/ EndAnalysis("base1")
    \/ ExecStart(1)
    \/ ProbeEndDisk(1)
    \/ AnalysisCallback("base1", 1)

SpecAgree == InitAna /\ [][NextAgree]_vars

(* ------------------------------------------------------------------ *)
(* C36                                                                *)
(* ------------------------------------------------------------------ *)
\* the records a normal format with block size b writes on track t
NormalRecords(t, b, cdl) ==
    [i \in 1..recs_per_track(private.dev_type, 0, b) |->
        FormatCount([start_unit |-> t, stop_unit |-> 2, blksize |-> b,
                     intensity |-> IF cdl THEN 8 ELSE 0], i - 1)]

NormalDisk(b, cdl) == \A t \in ProbedTracks : Disk[t] = NormalRecords(t, b, cdl)

\* C36: when tracks 0 and 2 hold the records of a normal format with a valid
\* block size B, the evaluation of a probe that ended DONE succeeds with block
\* size B, and with the compatible disk layout exactly when the format used it.
C36_Agree ==
    [][\A b \in DiskSizes, cdl \in BOOLEAN :
          (/\ NormalDisk(b, cdl)
           /\ calc'.fn = "end_analysis" /\ calc'.status = "DONE") =>
              /\ calc'.rc = "OK"
              /\ block'.bp_block = b
              /\ private'.uses_cdl = cdl]_vars

\* a volume formatted with the compatible disk layout and 4096-byte blocks
\* after another layout had been found on it
C36_Witness ==
    /\ calc.fn = "end_analysis" /\ calc.status = "DONE" /\ calc.rc = "OK"
    /\ private.uses_cdl /\ block.bp_block = 4096
    /\ private.count_area = CdlTrack0 \o <<Count(0, 4096), Count(0, 4096)>>

\* a volume formatted without it
C36_WitnessLinux ==
    /\ calc.fn = "end_analysis" /\ calc.status = "DONE" /\ calc.rc = "OK"
    /\ ~private.uses_cdl /\ block.bp_block = 512
    /\ private.count_area = [i \in 1..5 |-> Count(0, 512)]

(* ------------------------------------------------------------------ *)
(* drivers/infiniband/core/addr.c: the address resolution queue       *)
(* ------------------------------------------------------------------ *)
\* Times are kept relative to jiffies: timeout is req->timeout - jiffies, cut
\* off at 0 once it has passed; the tick of the clock counts every timeout down.

\* cancel_delayed_work: stops the timer; work already on the workqueue stays
cancel_delayed_work(w) == IF w.state = "timer" THEN NoWork ELSE w

\* queue_delayed_work: starts the timer unless the work is pending
queue_delayed_work(w, delay) ==
    IF w.state = "idle" THEN [state |-> "timer", delay |-> delay] ELSE w

\* set_timeout(time): delay = time - jiffies, at least 1
set_timeout(w, time) ==
    queue_delayed_work(cancel_delayed_work(w), IF time <= 0 THEN 1 ELSE time)

\* queue_req: the request goes behind the last one whose timeout is not later
InsertPos(list, timeout) ==
    LET before == {k \in 1..Len(list) : timeout >= areq[list[k]].timeout}
    IN IF before = {} THEN 0 ELSE CHOOSE k \in before : \A m \in before : m <= k

list_add(list, k, id) == SubSeq(list, 1, k) \o <<id>> \o SubSeq(list, k + 1, Len(list))

\* what addr_resolve_local and addr_resolve_remote may return, and kzalloc
ResolveRcs == {"0", "ENODATA", "ENETUNREACH"}

\* rdma_resolve_ip: status 0 and -ENODATA are queued, the rest is rejected
rdma_resolve_ip(id, status, timeout_ms) ==
    /\ areq[id].state = "none"
    /\ IF status \in {"0", "ENODATA"}
       THEN LET timeout == IF status = "0" THEN 0 ELSE timeout_ms
                list == list_add(req_list, InsertPos(req_list, timeout), id)
            IN /\ areq' = [areq EXCEPT ![id] = [NoAddrReq EXCEPT !.state = "queued",
                                                !.status = status, !.timeout = timeout]]
               /\ req_list' = list
               /\ work' = IF Head(list) = id THEN set_timeout(work, timeout) ELSE work
               /\ refcount' = refcount + 1
       ELSE /\ areq' = [areq EXCEPT ![id] = [NoAddrReq EXCEPT !.state = "rejected",
                                             !.status = status]]
            /\ UNCHANGED <<req_list, work, refcount>>
    /\ UNCHANGED <<worker, net, dasd>>

\* rdma_addr_cancel: the request for addr is marked, moved to the front and the
\* work is set to run now
rdma_addr_cancel(addr) ==
    /\ \E k \in 1..Len(req_list) : req_list[k] = addr
    /\ areq' = [areq EXCEPT ![addr].status = "ECANCELED", ![addr].timeout = 0,
                            ![addr].cancelled = TRUE]
    /\ req_list' = <<addr>> \o SelectSeq(req_list, LAMBDA r : r # addr)
    /\ work' = set_timeout(work, 0)
    /\ UNCHANGED <<worker, refcount, net, dasd>>

\* netevent_callback for a valid neighbour: set_timeout(jiffies) without the
\* mutex, first cancel_delayed_work ...
netevent_callback(event) ==
    /\ net = "idle"
    /\ event = "NEIGH_UPDATE_VALID"
    /\ work' = cancel_delayed_work(work)
    /\ net' = "queue"
    /\ UNCHANGED <<req_list, areq, worker, refcount, dasd>>

\* ... then queue_delayed_work with delay 1
netevent_queue ==
    /\ net = "queue"
    /\ work' = queue_delayed_work(work, 1)
    /\ net' = "idle"
    /\ UNCHANGED <<req_list, areq, worker, refcount, dasd>>

\* jiffies advances: every timeout comes one nearer, and a timer that runs out
\* puts the work on the workqueue
Tick ==
    /\ areq' = [i \in AddrReqs |->
                  [areq[i] EXCEPT !.timeout = IF @ > 0 THEN @ - 1 ELSE 0]]
    /\ work' = IF work.state = "timer"
               THEN IF work.delay <= 1 THEN [state |-> "queued", delay |-> 0]
                    ELSE [work EXCEPT !.delay = @ - 1]
               ELSE work
    /\ UNCHANGED <<req_list, worker, refcount, net, dasd>>

\* process_req, per request: the status after the new attempt to resolve it
Resolved(req, rc) ==
    IF req.status = "ENODATA"
    THEN IF rc # "0" /\ req.timeout <= 0 THEN "ETIMEDOUT" ELSE rc
    ELSE req.status

\* mutant: the work is not queued again for the requests that stay
Rearm_never(w, list) == w

\* "if (!list_empty(&req_list)) set_timeout(req->timeout)" for the first request
Rearm(w, list) == IF list # <<>> THEN set_timeout(w, areq[Head(list)].timeout) ELSE w

\* process_req under the mutex: requests that are resolved, failed, timed out or
\* cancelled move to done_list, the others stay
process_req(rcs) ==
    /\ work.state = "queued"
    /\ worker.at = "idle"
    /\ LET stays(r) == areq[r].status = "ENODATA" /\ Resolved(areq[r], rcs[r]) = "ENODATA"
           left == SelectSeq(req_list, stays)
           done_list == SelectSeq(req_list, LAMBDA r : ~stays(r))
       IN /\ areq' = [i \in AddrReqs |->
                        IF \E k \in 1..Len(done_list) : done_list[k] = i
                        THEN [areq[i] EXCEPT !.status = Resolved(areq[i], rcs[i]),
                                             !.state = "done"]
                        ELSE areq[i]]
          /\ req_list' = left
          /\ work' = Rearm(NoWork, left)
          /\ worker' = [at |-> "done", done_list |-> done_list]
    /\ UNCHANGED <<refcount, net, dasd>>

\* process_req, second loop: callback, put_client, kfree for one request
process_done ==
    /\ worker.at = "done"
    /\ IF worker.done_list = <<>>
       THEN /\ worker' = [at |-> "idle", done_list |-> <<>>]
            /\ UNCHANGED <<areq, refcount>>
       ELSE LET r == Head(worker.done_list)
            IN /\ areq' = [areq EXCEPT ![r].state = "freed", ![r].calls = @ + 1,
                                       ![r].result = areq[r].status]
               /\ refcount' = refcount - 1
               /\ worker' = [worker EXCEPT !.done_list = Tail(@)]
    /\ UNCHANGED <<req_list, work, net, dasd>>

InitAddr ==
    /\ private = Private(13200, FALSE, FALSE, FALSE)
    /\ block = Block(2048)
    /\ dasd_page_cache = FALSE
    /\ InitRest

NextAddr ==
    \/ \E id \in AddrReqs, status \in ResolveRcs \cup {"ENOMEM"}, timeout_ms \in 0..MaxTimeout :
          rdma_resolve_ip(id, status, timeout_ms)
    \/ \E addr \in AddrReqs : rdma_addr_cancel(addr)
    \/ netevent_callback("NEIGH_UPDATE_VALID")
    \/ netevent_queue
    \/ Tick
    \/ \E rcs \in [AddrReqs -> ResolveRcs] : process_req(rcs)
    \/ process_done

\* every thread that can run does run; the clock ticks, and a timer that is
\* started again and again runs out (starting it for the next jiffy does not put
\* it off beyond that jiffy)
SpecAddr ==
    /\ InitAddr /\ [][NextAddr]_vars
    /\ SF_vars(Tick)
    /\ WF_vars(netevent_queue)
    /\ WF_vars(\E rcs \in [AddrReqs -> ResolveRcs] : process_req(rcs))
    /\ WF_vars(process_done)

(* ------------------------------------------------------------------ *)
(* C40                                                                *)
(* ------------------------------------------------------------------ *)
Queued(i) == \E k \in 1..Len(req_list) : req_list[k] = i

\* what holds of the requests at any time
C40_Once ==
    \A i \in AddrReqs :
        /\ areq[i].calls <= 1
        /\ areq[i].state = "rejected" =>
              areq[i].calls = 0 /\ ~Queued(i) /\ areq[i].status \notin {"0", "ENODATA"}
        /\ areq[i].state = "queued" <=> Queued(i)
        /\ areq[i].state = "freed" =>
              /\ areq[i].calls = 1 /\ ~Queued(i)
              /\ areq[i].result \in {"0", "ENETUNREACH", "ETIMEDOUT", "ECANCELED"}
              /\ areq[i].result = "ETIMEDOUT" => areq[i].timeout = 0
              /\ areq[i].result = "ECANCELED" => areq[i].cancelled
        /\ areq[i].calls = 1 => areq[i].state = "freed"
        /\ refcount = 1 + Cardinality({j \in AddrReqs : areq[j].state \in {"queued", "done"}})

\* C40: every request rdma_resolve_ip accepted gets its callback, once, with
\* status 0, an error of the resolution, -ETIMEDOUT when its timeout has passed
\* or -ECANCELED after rdma_addr_cancel, and is then off the queue with its
\* client reference dropped; a rejected request gets no callback.
C40_Callback ==
    /\ []C40_Once
    /\ \A i \in AddrReqs : (areq[i].state = "queued") ~> (areq[i].state = "freed")

\* a request has timed out and another one was cancelled
C40_Witness ==
    /\ areq[1].state = "freed" /\ areq[1].result = "ETIMEDOUT"
    /\ areq[2].state = "freed" /\ areq[2].result = "ECANCELED"
    /\ refcount = 1 /\ req_list = <<>>

C40_WitnessResolved ==
    /\ areq[1].state = "freed" /\ areq[1].result = "0" /\ areq[1].calls = 1
    /\ areq[2].state = "rejected"

(* ------------------------------------------------------------------ *)
(* C31                                                                *)
(* ------------------------------------------------------------------ *)
\* C31: dasd_eckd_free_cp returns 1 exactly when the status of the request is
\* DONE at the call and 0 for every other status; either way every copy buffer is
\* back in the pool and the request is released.
C31_FreeStatus ==
    [][\A p \in Bases :
          (pc[p].at = "free_cp" /\ pc'[p].at = "idle") =>
              /\ pc'[p].ret = (IF cqrs[pc[p].r].status = "DONE" THEN "1" ELSE "0")
              /\ cqrs'[pc[p].r] = FreedCqr
              /\ pool' = Buffers]_vars

\* a request that ended in error was freed with its copy buffer: 0 was returned
C31_Witness ==
    /\ pc["base1"].at = "idle" /\ pc["base1"].ret = "0" /\ cqrs[1] = FreedCqr
    /\ dasd_page_cache /\ pool = Buffers

\* a request that was done was freed
C31_WitnessDone ==
    /\ pc["base1"].at = "idle" /\ pc["base1"].ret = "1" /\ cqrs[1] = FreedCqr

(* ------------------------------------------------------------------ *)
(* C11                                                                *)
(* ------------------------------------------------------------------ *)
BuildErrors == {"EINVAL", "ENOMEM", "EAGAIN", "EBUSY"}

\* in this specification a build starts with no request, a full pool and all
\* counters zero, so after a failed build the same must hold
C11_AfterError ==
    \A p \in Bases : (pc[p].at = "idle" /\ pc[p].ret \in BuildErrors) =>
        /\ \A r \in ReqIds : cqrs[r] = NoCqr /\ reqs[r] = NoReq
        /\ pool = Buffers /\ \A b \in Buffers : bufmem[b] = <<>>
        /\ \A d \in Devices : count[d] = 0 /\ lock[d] = "free"

C11_AtError ==
    \A p \in Bases : (pc[p].at = "build" /\ pc'[p].ret \in BuildErrors) =>
        /\ cqrs' = cqrs /\ reqs' = reqs /\ pool' = pool /\ bufmem' = bufmem
        /\ count' = [count EXCEPT ![pc[p].sd] = @ - 1]

\* C11: a build that returns an error leaves no request behind, the pool as it
\* was, and the start device's counter at its value before the call
C11_ErrorLeavesNothing == []C11_AfterError /\ [][C11_AtError]_vars

\* a write on a volume with XRC and a configured pool was refused because the
\* clock is not in sync, the last of the error returns of build_cp
C11_Witness ==
    /\ pc["base1"].at = "idle" /\ pc["base1"].ret = "EAGAIN"
    /\ private.XRC_supported /\ dasd_page_cache
    /\ pool = Buffers /\ count["base1"] = 0
====
